---- MODULE Spec2Model ----
(***************************************************************************)
(* MerkelBackup: the chunk server (src/src/server/handler.rs) and the      *)
(* backup client (src/src/client/backup.rs) as one state machine.          *)
(*                                                                         *)
(* Server: the tables chunks, deletes, roots behind the connection mutex,  *)
(* the data directory (committed external files, upload temp files), and a *)
(* fixed pool of request handlers.  A handler takes one atomic step per    *)
(* access to shared state (one critical section of the mutex, or one       *)
(* filesystem call made outside it); purely local work (check_auth,        *)
(* check_hash, reading the request body) is folded into the next step.     *)
(*                                                                         *)
(* Client: run() over one directory, with its cache tables remote and      *)
(* files, its State, and its position in run / backup_folder /             *)
(* backup_file / push_chunk / has_chunk.  It is sequential; it takes one   *)
(* step per request sent, per response received and per stretch of local   *)
(* work in between.                                                        *)
(***************************************************************************)
EXTENDS Naturals, Integers, Sequences, FiniteSets, TLC

(***************************************************************************)
(* Bounds of the model.                                                    *)
(***************************************************************************)
NProcs == 2          \* request handlers that can be in flight at once
MaxTime == 2         \* seconds the clock (strftime('%s','now')) runs through
MaxRand == 2         \* distinct rand::random suffixes of upload temp files
MaxRoots == 2        \* rows the roots table may hold
MaxRuns == 2         \* runs of the backup client
MaxSkew == 1         \* seconds the client's clock may be off the server's
MaxNonce == 1        \* distinct nonces the client's rng draws
MaxDeletes == 2      \* chunk deletes the administrator sends beside the client

\* the second the clock starts in: late enough that no clock reads 0, the
\* time GET /status reports for a bucket without a delete
FirstSecond == MaxSkew + 1

Procs == 1..NProcs

(***************************************************************************)
(* Strings of the wire format.  An identifier is kept run-length encoded:  *)
(* [pre, pad, len] is the string pre followed by pad repeated up to length *)
(* len, so that a 64 character hash is a small value.                      *)
(***************************************************************************)
Ord(c) ==
  CASE c = "/" -> 47 [] c = "0" -> 48 [] c = "1" -> 49 [] c = "2" -> 50
    [] c = "3" -> 51 [] c = "4" -> 52 [] c = "5" -> 53 [] c = "6" -> 54
    [] c = "7" -> 55 [] c = "8" -> 56 [] c = "9" -> 57 [] c = ":" -> 58
    [] c = "A" -> 65
    [] c = "a" -> 97 [] c = "b" -> 98 [] c = "c" -> 99 [] c = "d" -> 100
    [] c = "e" -> 101 [] c = "f" -> 102 [] c = "g" -> 103

Str(pre, pad, len) == [pre |-> pre, pad |-> pad, len |-> len]

CharAt(s, i) == IF i <= Len(s.pre) THEN s.pre[i] ELSE s.pad

\* the characters of s, as name.chars() yields them
Chars(s) ==
  {s.pre[i] : i \in 1..(IF Len(s.pre) < s.len THEN Len(s.pre) ELSE s.len)}
    \cup (IF s.len > Len(s.pre) THEN {s.pad} ELSE {})

\* &s[..2] and &s[2..]
Take2(s) == <<CharAt(s, 1), CharAt(s, 2)>>
Drop2(s) == Str(SubSeq(s.pre, 3, Len(s.pre)), s.pad, s.len - 2)

HashLen == 64

\* (mutant) the length alone is looked at
check_hash_LengthOnly(name) == name.len = HashLen

\* check_hash: Ok(()) exactly for 64 characters of [0-9a-f]
check_hash(name) ==
  /\ name.len = HashLen
  /\ \A c \in Chars(name) :
       \/ (Ord("0") <= Ord(c) /\ Ord(c) <= Ord("9"))
       \/ (Ord("a") <= Ord(c) /\ Ord(c) <= Ord("f"))

\* chunk_path below data_dir
chunk_path(bucket, chunk) ==
  [bucket |-> bucket, dir |-> Take2(chunk), name |-> Drop2(chunk)]

\* the upload temp file of a PUT
temp_path(bucket, chunk, rand) ==
  [bucket |-> bucket, chunk |-> chunk, rand |-> rand]

(***************************************************************************)
(* Identifiers and bodies the requests of the model draw from.             *)
(***************************************************************************)
Hex(pre) == Str(pre, "0", HashLen)

B1 == Hex(<<"b", "1">>)
B2 == Hex(<<"b", "2">>)
H1 == Hex(<<"a", "1">>)
H2 == Hex(<<"a", "2">>)
H3 == Hex(<<"a", "3">>)
BadShort == Str(<<"a", "1">>, "0", 63)       \* one character short
BadUpper == Str(<<"A", "1">>, "0", HashLen)  \* an upper case digit
BadChar == Str(<<"a", "g">>, "0", HashLen)   \* not a hex digit
EmptyStr == Str(<<>>, "0", 0)

\* A byte string is known by its length and by what tells two strings of
\* that length apart: the plaintext it carries and the nonce it starts with.
Bytes(nonce, tag, len) == [nonce |-> nonce, tag |-> tag, len |-> len]
NoBytes == Bytes(0, <<>>, 0)

\* config::SMALL_SIZE: bodies below it are stored inline
SMALL_SIZE == 131072
\* handle_put_chunk's body limit
PUT_LIMIT == 1073741824

(***************************************************************************)
(* Access levels and users (config.rs: AccessType, Config.users).          *)
(***************************************************************************)
AccessRank(level) ==
  CASE level = "Get" -> 0 [] level = "Put" -> 1 [] level = "Delete" -> 2

User(name, password, level) ==
  [name |-> name, password |-> password, access_level |-> level]

ConfigUsers ==
  << User("gina", "g1", "Get"), User("paul", "p1", "Put"),
     User("dora", "d1", "Delete") >>

\* base64::encode: injective, and never the text it encodes
Base64(text) == <<"b64", text>>

\* the Authorization header a client sends for (name, password)
BasicAuth(name, password) ==
  [scheme |-> "Basic", cred |-> Base64(name \o ":" \o password)]
NoAuth == [scheme |-> "none", cred |-> Base64("")]

\* (mutant) only the exact level passes
AccessGe_Exact(have, want) == AccessRank(have) = AccessRank(want)

\* user.access_level >= level
AccessGe(have, want) == AccessRank(have) >= AccessRank(want)

\* check_auth: TRUE when the request may proceed (the code returns None)
check_auth(auth, level) ==
  /\ auth.scheme # "none"
  /\ \E i \in 1..Len(ConfigUsers) :
       /\ BasicAuth(ConfigUsers[i].name, ConfigUsers[i].password) = auth
       /\ AccessGe(ConfigUsers[i].access_level, level)

(***************************************************************************)
(* State.                                                                  *)
(***************************************************************************)
VARIABLES
  chunks,    \* table chunks: rows [bucket, hash, size, time, ext, content]
  deletes,   \* table deletes: rows [bucket, time]
  roots,     \* table roots: rows [id, bucket, host, time, hash]
  disk,      \* committed external files: [path, data]
  upload,    \* upload temp files: [path, data]
  now,       \* the clock, in seconds
  pc,        \* per handler: where it stands
  req,       \* per handler: the request it serves
  resp,      \* per handler: the response it returned
  local,     \* per handler: its local variables
  conc,      \* per handler: the handlers in flight at some time with it
  acked,     \* chunk PUTs answered 200 and not deleted since: [bucket, hash, data]
  tree,      \* the client's backed-up file: [id, size, mtime]
  skew,      \* seconds the client's clock is ahead of the server's (or behind, < 0)
  remote,    \* client cache table remote: rows [chunk, time]
  files,     \* client cache table files: rows [path, size, mtime, chunks]
  state,     \* the run's State: [scan, transfer_bytes, last_delete]
  cl,        \* the client's position and local variables
  hist       \* what the runs and the deletes did so far (history)

serverVars == <<chunks, deletes, roots, disk, upload>>
procVars == <<pc, req, resp, local, conc>>
serverSide ==
  <<chunks, deletes, roots, disk, upload, now, pc, req, resp, local, conc, acked>>
clientVars == <<tree, skew, remote, files, state, cl, hist>>
vars ==
  <<chunks, deletes, roots, disk, upload, now, pc, req, resp, local, conc, acked,
    tree, skew, remote, files, state, cl, hist>>

Request(op, auth, bucket, chunk, body, list) ==
  [op |-> op, auth |-> auth, bucket |-> bucket, chunk |-> chunk,
   body |-> body, list |-> list, host |-> <<>>, text |-> EmptyStr,
   id |-> 0, validate |-> FALSE]
NoRequest == Request("none", NoAuth, EmptyStr, EmptyStr, NoBytes, <<>>)

Response(code, size, data, value) ==
  [code |-> code, size |-> size, data |-> data, value |-> value, rows |-> {}]
NoResponse == Response(0, 0, NoBytes, 0)
Status(code) == Response(code, 0, NoBytes, 0)
Listing(rows) == [Status(200) EXCEPT !.rows = rows]

\* v: the body read; rand: the temp file's suffix; size: the row's size;
\* count: rows the DELETE statement removed; delseen: a delete of the
\* request's chunk ran while it was in flight
Locals(v, rand, size, count, delseen) ==
  [v |-> v, rand |-> rand, size |-> size, count |-> count, delseen |-> delseen]
NoLocals == Locals(NoBytes, 0, 0, 0, FALSE)

InFlight == {p \in Procs : pc[p] \notin {"idle", "done"}}

\* SELECT ... FROM chunks WHERE bucket=? AND hash=?
RowsIn(table, bucket, hash) == {r \in table : r.bucket = bucket /\ r.hash = hash}
ChunkRows(bucket, hash) == RowsIn(chunks, bucket, hash)

\* std::fs::read / metadata of a path
FileIn(dir, path) == {f \in dir : f.path = path}
FileAt(path) == FileIn(disk, path)

ServerInit ==
  /\ chunks = {}
  /\ deletes = {}
  /\ roots = {}
  /\ disk = {}
  /\ upload = {}
  /\ now = FirstSecond
  /\ pc = [p \in Procs |-> "idle"]
  /\ req = [p \in Procs |-> NoRequest]
  /\ resp = [p \in Procs |-> NoResponse]
  /\ local = [p \in Procs |-> NoLocals]
  /\ conc = [p \in Procs |-> {}]
  /\ acked = {}

\* the handler returns: its response is out
Reply(p, r, rsp) ==
  /\ pc' = [pc EXCEPT ![p] = "done"]
  /\ req' = [req EXCEPT ![p] = r]
  /\ resp' = [resp EXCEPT ![p] = rsp]

\* the handler suspends at an await, or leaves a critical section, at `at`
Goto(p, r, at) ==
  /\ pc' = [pc EXCEPT ![p] = at]
  /\ req' = [req EXCEPT ![p] = r]
  /\ resp' = resp

\* a request arrives at handler p: it runs with everything now in flight
Arrive(p) ==
  conc' = [q \in Procs |->
             IF q = p THEN InFlight \ {p}
             ELSE IF q \in InFlight THEN conc[q] \cup {p} ELSE conc[q]]

(***************************************************************************)
(* PUT /chunks/{bucket}/{chunk}: handle_put_chunk.                         *)
(***************************************************************************)
\* (mutant) the SELECT that looks for the chunk's row is left out
handle_put_chunk_NoSelect(p, r) ==
  /\ pc[p] = "idle"
  /\ r.op = "PUT_CHUNK"
  /\ Arrive(p)
  /\ UNCHANGED <<chunks, deletes, roots, disk, upload, now, local, acked>>
  /\ IF ~check_auth(r.auth, "Put") THEN Reply(p, r, Status(401))
     ELSE IF ~check_hash(r.bucket) \/ ~check_hash(r.chunk)
       THEN Reply(p, r, Status(400))
     ELSE Goto(p, r, "put_body")

\* up to the first await: authorization, validation, the existence check
handle_put_chunk(p, r) ==
  /\ pc[p] = "idle"
  /\ r.op = "PUT_CHUNK"
  /\ Arrive(p)
  /\ UNCHANGED <<chunks, deletes, roots, disk, upload, now, local, acked>>
  /\ IF ~check_auth(r.auth, "Put") THEN Reply(p, r, Status(401))
     ELSE IF ~check_hash(r.bucket) \/ ~check_hash(r.chunk)
       THEN Reply(p, r, Status(400))
     ELSE IF ChunkRows(r.bucket, r.chunk) # {}
       THEN Reply(p, r, Status(409))
     ELSE Goto(p, r, "put_body")

\* INSERT INTO chunks: the row, or nothing when (bucket, hash) is taken
ChunkRow(bucket, hash, size, ext, content) ==
  [bucket |-> bucket, hash |-> hash, size |-> size, time |-> now,
   ext |-> ext, content |-> content]

\* the UNIQUE index on chunks (bucket, hash) refuses the INSERT
InsertRefused(bucket, hash) == ChunkRows(bucket, hash) # {}

\* rand::random::<u64>(): a suffix no temp file of this chunk carries
FreshRand(bucket, chunk) ==
  {n \in 1..MaxRand :
     /\ \A f \in upload : f.path # temp_path(bucket, chunk, n)
     /\ \A m \in 1..(n - 1) :
          \E f \in upload : f.path = temp_path(bucket, chunk, m)}

\* a PUT answered 200 is on record until a delete names its chunk
Ack(bucket, hash, data) ==
  {a \in acked : ~(a.bucket = bucket /\ a.hash = hash)}
    \cup {[bucket |-> bucket, hash |-> hash, data |-> data]}

\* the body has been read: the inline INSERT, or the write of the temp file
put_chunk_body(p) ==
  LET r == req[p]
      v == r.body
  IN
  /\ pc[p] = "put_body"
  /\ UNCHANGED <<deletes, roots, disk, now, conc>>
  /\ IF v.len > PUT_LIMIT THEN
       /\ Reply(p, r, Status(400))
       /\ UNCHANGED <<chunks, upload, local, acked>>
     ELSE IF v.len < SMALL_SIZE THEN
       IF InsertRefused(r.bucket, r.chunk) THEN
         /\ Reply(p, r, Status(500))
         /\ UNCHANGED <<chunks, upload, local, acked>>
       ELSE
         /\ chunks' = chunks \cup {ChunkRow(r.bucket, r.chunk, v.len, FALSE, v)}
         /\ acked' = Ack(r.bucket, r.chunk, v)
         /\ Reply(p, r, Status(200))
         /\ UNCHANGED <<upload, local>>
     ELSE
       /\ FreshRand(r.bucket, r.chunk) # {}
       /\ \E n \in FreshRand(r.bucket, r.chunk) :
            /\ upload' = upload \cup
                 {[path |-> temp_path(r.bucket, r.chunk, n), data |-> v]}
            /\ local' = [local EXCEPT ![p].v = v, ![p].rand = n]
       /\ Goto(p, r, "put_insert")
       /\ UNCHANGED <<chunks, acked>>

\* the INSERT of an external chunk's row, before the rename
put_chunk_insert(p) ==
  LET r == req[p] IN
  /\ pc[p] = "put_insert"
  /\ UNCHANGED <<deletes, roots, disk, upload, now, local, conc, acked>>
  /\ IF InsertRefused(r.bucket, r.chunk) THEN
       /\ Reply(p, r, Status(500))
       /\ UNCHANGED chunks
     ELSE
       /\ chunks' = chunks \cup
            {ChunkRow(r.bucket, r.chunk, local[p].v.len, TRUE, NoBytes)}
       /\ Goto(p, r, "put_rename")

\* std::fs::rename of the temp file onto chunk_path, replacing what is there
put_chunk_rename(p) ==
  LET r == req[p]
      from == temp_path(r.bucket, r.chunk, local[p].rand)
      to == chunk_path(r.bucket, r.chunk)
  IN
  /\ pc[p] = "put_rename"
  /\ UNCHANGED <<chunks, deletes, roots, now, local, conc>>
  /\ IF \E f \in upload : f.path = from THEN
       /\ upload' = {f \in upload : f.path # from}
       /\ disk' = {f \in disk : f.path # to}
            \cup {[path |-> to, data |-> f.data] : f \in {g \in upload : g.path = from}}
       /\ acked' = Ack(r.bucket, r.chunk, local[p].v)
       /\ Reply(p, r, Status(200))
     ELSE
       /\ Reply(p, r, Status(500))
       /\ UNCHANGED <<disk, upload, acked>>

(***************************************************************************)
(* GET and HEAD /chunks/{bucket}/{chunk}: handle_get_chunk.                *)
(***************************************************************************)
\* (mutant) HEAD asks for no more than GET does
GetChunkLevel_Same(head) == "Get"

\* the level handle_get_chunk passes to check_auth
GetChunkLevel(head) == IF head THEN "Put" ELSE "Get"

handle_get_chunk(p, r, head) ==
  /\ pc[p] = "idle"
  /\ r.op = (IF head THEN "HEAD_CHUNK" ELSE "GET_CHUNK")
  /\ Arrive(p)
  /\ UNCHANGED <<chunks, deletes, roots, disk, upload, now, acked>>
  /\ IF ~check_auth(r.auth, GetChunkLevel(head)) THEN
       Reply(p, r, Status(401)) /\ UNCHANGED local
     ELSE IF ~check_hash(r.bucket) \/ ~check_hash(r.chunk) THEN
       Reply(p, r, Status(400)) /\ UNCHANGED local
     ELSE IF ChunkRows(r.bucket, r.chunk) = {} THEN
       Reply(p, r, Status(404)) /\ UNCHANGED local
     ELSE \E row \in ChunkRows(r.bucket, r.chunk) :
       IF head THEN
         Reply(p, r, Response(200, row.size, NoBytes, 0)) /\ UNCHANGED local
       ELSE IF ~row.ext THEN
         Reply(p, r, Response(200, row.size, row.content, 0)) /\ UNCHANGED local
       ELSE
         /\ local' = [local EXCEPT ![p].size = row.size]
         /\ Goto(p, r, "get_read")

\* std::fs::read of the external file, outside the mutex
get_chunk_read(p) ==
  LET r == req[p]
      at == FileAt(chunk_path(r.bucket, r.chunk))
  IN
  /\ pc[p] = "get_read"
  /\ UNCHANGED <<chunks, deletes, roots, disk, upload, now, local, conc, acked>>
  /\ IF at = {} THEN Reply(p, r, Status(500))
     ELSE \E f \in at : Reply(p, r, Response(200, local[p].size, f.data, 0))

(***************************************************************************)
(* DELETE /chunks/{bucket}/{chunk} and DELETE /chunks/{bucket}:            *)
(* handle_delete_chunk, handle_delete_chunks, do_delete_chunks.            *)
(***************************************************************************)
Elems(list) == {list[i] : i \in 1..Len(list)}

\* (mutant) all or nothing: no row goes unless every listed hash has one
RowsHit_AllOrNothing(bucket, list) ==
  IF \A h \in Elems(list) : \E row \in chunks : row.bucket = bucket /\ row.hash = h
    THEN {row \in chunks : row.bucket = bucket /\ row.hash \in Elems(list)}
    ELSE {}

\* (mutant) the statements match the hashes in whatever bucket
RowsHit_AnyBucket(bucket, list) == {row \in chunks : row.hash \in Elems(list)}

\* the rows the SELECT and the DELETE statement of do_delete_chunks match
RowsHit(bucket, list) ==
  {row \in chunks : row.bucket = bucket /\ row.hash \in Elems(list)}

\* (mutant) the epoch moves only when a row was removed
ReplaceDelete_IfRemoved(bucket, count) ==
  IF count = 0 THEN deletes
  ELSE {d \in deletes : d.bucket # bucket} \cup {[bucket |-> bucket, time |-> now]}

\* REPLACE INTO deletes VALUES (bucket, now)
ReplaceDelete(bucket, count) ==
  {d \in deletes : d.bucket # bucket} \cup {[bucket |-> bucket, time |-> now]}

\* (mutant) the row count is compared with the number of distinct hashes
do_delete_chunks_Distinct(p, r, list) ==
  IF list = <<>> THEN
    /\ Reply(p, r, Status(200))
    /\ UNCHANGED <<chunks, deletes, disk, local, acked>>
  ELSE
    LET hit == RowsHit(r.bucket, list)
        gone == {chunk_path(r.bucket, row.hash) : row \in {x \in hit : x.ext}}
        count == Cardinality(hit)
    IN
    /\ disk' = {f \in disk : f.path \notin gone}
    /\ chunks' = chunks \ hit
    /\ deletes' = ReplaceDelete(r.bucket, count)
    /\ acked' = {a \in acked : ~(a.bucket = r.bucket /\ a.hash \in Elems(list))}
    /\ local' = [q \in Procs |->
         IF q = p THEN [local[q] EXCEPT !.count = count]
         ELSE IF /\ q \in InFlight
                 /\ req[q].bucket = r.bucket
                 /\ req[q].chunk \in Elems(list)
           THEN [local[q] EXCEPT !.delseen = TRUE]
         ELSE local[q]]
    /\ Reply(p, r, Status(IF count # Cardinality(Elems(list)) THEN 404 ELSE 200))

\* one critical section: unlink the external files, DELETE, REPLACE
do_delete_chunks(p, r, list) ==
  IF list = <<>> THEN
    /\ Reply(p, r, Status(200))
    /\ UNCHANGED <<chunks, deletes, disk, local, acked>>
  ELSE
    LET hit == RowsHit(r.bucket, list)
        gone == {chunk_path(r.bucket, row.hash) : row \in {x \in hit : x.ext}}
        count == Cardinality(hit)
    IN
    /\ disk' = {f \in disk : f.path \notin gone}
    /\ chunks' = chunks \ hit
    /\ deletes' = ReplaceDelete(r.bucket, count)
    /\ acked' = {a \in acked : ~(a.bucket = r.bucket /\ a.hash \in Elems(list))}
    /\ local' = [q \in Procs |->
         IF q = p THEN [local[q] EXCEPT !.count = count]
         ELSE IF /\ q \in InFlight
                 /\ req[q].bucket = r.bucket
                 /\ req[q].chunk \in Elems(list)
           THEN [local[q] EXCEPT !.delseen = TRUE]
         ELSE local[q]]
    /\ Reply(p, r, Status(IF count # Len(list) THEN 404 ELSE 200))

handle_delete_chunk(p, r) ==
  /\ pc[p] = "idle"
  /\ r.op = "DELETE_CHUNK"
  /\ Arrive(p)
  /\ UNCHANGED <<roots, upload, now>>
  /\ IF ~check_auth(r.auth, "Delete") THEN
       /\ Reply(p, r, Status(401))
       /\ UNCHANGED <<chunks, deletes, disk, local, acked>>
     ELSE IF ~check_hash(r.bucket) \/ ~check_hash(r.chunk) THEN
       /\ Reply(p, r, Status(400))
       /\ UNCHANGED <<chunks, deletes, disk, local, acked>>
     ELSE do_delete_chunks(p, r, <<r.chunk>>)

\* up to the await of the body
handle_delete_chunks(p, r) ==
  /\ pc[p] = "idle"
  /\ r.op = "DELETE_CHUNKS"
  /\ Arrive(p)
  /\ UNCHANGED <<chunks, deletes, roots, disk, upload, now, local, acked>>
  /\ IF ~check_auth(r.auth, "Delete") THEN Reply(p, r, Status(401))
     ELSE IF ~check_hash(r.bucket) THEN Reply(p, r, Status(400))
     ELSE Goto(p, r, "delete_body")

\* the body has been read and split at NUL: r.list are its pieces
delete_chunks_body(p) ==
  LET r == req[p] IN
  /\ pc[p] = "delete_body"
  /\ UNCHANGED <<roots, upload, now, conc>>
  /\ IF \E h \in Elems(r.list) : ~check_hash(h) THEN
       /\ Reply(p, r, Status(400))
       /\ UNCHANGED <<chunks, deletes, disk, local, acked>>
     ELSE do_delete_chunks(p, r, r.list)

(***************************************************************************)
(* GET /status/{bucket}: handle_get_status.                                *)
(***************************************************************************)
\* SELECT time FROM deletes WHERE bucket=?, or 0
TimeIn(table, bucket) ==
  IF \E d \in table : d.bucket = bucket
    THEN (CHOOSE d \in table : d.bucket = bucket).time
    ELSE 0
StatusTime(bucket) == TimeIn(deletes, bucket)

handle_get_status(p, r) ==
  /\ pc[p] = "idle"
  /\ r.op = "GET_STATUS"
  /\ Arrive(p)
  /\ UNCHANGED <<chunks, deletes, roots, disk, upload, now, local, acked>>
  /\ IF ~check_auth(r.auth, "Put") THEN Reply(p, r, Status(401))
     ELSE IF ~check_hash(r.bucket) THEN Reply(p, r, Status(400))
     ELSE Reply(p, r, Response(200, 0, NoBytes, StatusTime(r.bucket)))

(***************************************************************************)
(* GET /chunks/{bucket}: handle_list_chunks.                               *)
(***************************************************************************)
\* std::fs::metadata(path).len(), or -1 when the file is not found
DiskSize(bucket, hash) ==
  IF FileAt(chunk_path(bucket, hash)) = {} THEN -1
  ELSE (CHOOSE f \in FileAt(chunk_path(bucket, hash)) : TRUE).data.len

ListLine(row, full) ==
  IF full
    THEN [hash |-> row.hash, size |-> row.size,
          disk |-> IF row.ext THEN DiskSize(row.bucket, row.hash)
                   ELSE row.content.len]
    ELSE [hash |-> row.hash, size |-> row.size]

handle_list_chunks(p, r) ==
  /\ pc[p] = "idle"
  /\ r.op = "LIST_CHUNKS"
  /\ Arrive(p)
  /\ UNCHANGED <<chunks, deletes, roots, disk, upload, now, local, acked>>
  /\ IF ~check_auth(r.auth, IF r.validate THEN "Get" ELSE "Put")
       THEN Reply(p, r, Status(401))
     ELSE IF ~check_hash(r.bucket) THEN Reply(p, r, Status(400))
     ELSE Reply(p, r, Listing({ListLine(row, r.validate) :
                                 row \in {x \in chunks : x.bucket = r.bucket}}))

(***************************************************************************)
(* /roots: handle_get_roots, handle_put_root, handle_delete_root.          *)
(***************************************************************************)
NUL == "NUL"
ROOT_LIMIT == 10485760

handle_get_roots(p, r) ==
  /\ pc[p] = "idle"
  /\ r.op = "GET_ROOTS"
  /\ Arrive(p)
  /\ UNCHANGED <<chunks, deletes, roots, disk, upload, now, local, acked>>
  /\ IF ~check_auth(r.auth, "Get") THEN Reply(p, r, Status(401))
     ELSE IF ~check_hash(r.bucket) THEN Reply(p, r, Status(400))
     ELSE Reply(p, r, Listing({x \in roots : x.bucket = r.bucket}))

\* the id the roots table gives a new row
NextRootId ==
  IF roots = {} THEN 1
  ELSE 1 + (CHOOSE n \in {x.id : x \in roots} : \A x \in roots : x.id <= n)

\* authorization and validation, the body, then the INSERT
handle_put_root(p, r) ==
  /\ pc[p] = "idle"
  /\ r.op = "PUT_ROOT"
  /\ Arrive(p)
  /\ UNCHANGED <<chunks, deletes, disk, upload, now, local, acked>>
  /\ IF ~check_auth(r.auth, "Put") THEN
       Reply(p, r, Status(401)) /\ UNCHANGED roots
     ELSE IF ~check_hash(r.bucket) THEN
       Reply(p, r, Status(400)) /\ UNCHANGED roots
     ELSE IF \E i \in 1..Len(r.host) : r.host[i] = NUL THEN
       Reply(p, r, Status(400)) /\ UNCHANGED roots
     ELSE IF r.text.len > ROOT_LIMIT \/ ~check_hash(r.text) THEN
       Reply(p, r, Status(400)) /\ UNCHANGED roots
     ELSE
       /\ Cardinality(roots) < MaxRoots
       /\ roots' = roots \cup
            {[id |-> NextRootId, bucket |-> r.bucket, host |-> r.host,
              time |-> now, hash |-> r.text]}
       /\ Reply(p, r, Status(200))

handle_delete_root(p, r) ==
  /\ pc[p] = "idle"
  /\ r.op = "DELETE_ROOT"
  /\ Arrive(p)
  /\ UNCHANGED <<chunks, deletes, disk, upload, now, local, acked>>
  /\ IF ~check_auth(r.auth, "Delete") THEN
       Reply(p, r, Status(401)) /\ UNCHANGED roots
     ELSE IF ~check_hash(r.bucket) THEN
       Reply(p, r, Status(400)) /\ UNCHANGED roots
     ELSE
       LET hit == {x \in roots : x.bucket = r.bucket /\ x.id = r.id} IN
       /\ roots' = roots \ hit
       /\ Reply(p, r, Status(IF hit = {} THEN 404 ELSE 200))

(***************************************************************************)
(* The environment: the response is taken, a second passes.                *)
(***************************************************************************)
Return(p) ==
  /\ pc[p] = "done"
  /\ pc' = [pc EXCEPT ![p] = "idle"]
  /\ req' = [req EXCEPT ![p] = NoRequest]
  /\ resp' = [resp EXCEPT ![p] = NoResponse]
  /\ local' = [local EXCEPT ![p] = NoLocals]
  /\ conc' = [conc EXCEPT ![p] = {}]
  /\ UNCHANGED <<chunks, deletes, roots, disk, upload, now, acked>>

Tick ==
  /\ now < FirstSecond + MaxTime - 1
  /\ now' = now + 1
  /\ UNCHANGED <<chunks, deletes, roots, disk, upload, pc, req, resp, local, conc, acked>>

(***************************************************************************)
(* The client (backup.rs): its configuration, the tree it backs up, and    *)
(* the strings it computes.                                                *)
(***************************************************************************)
CHUNK_SIZE == 67108864
\* has_chunk: below this size a chunk is uploaded again without a probe
REUPLOAD_SIZE == 16384
\* config.recheck
recheck == FALSE
\* the handler that serves the client's connection
Conn == 1
ClientAuth == BasicAuth("paul", "p1")
Hostname == <<"p", "c">>

\* the tree: directory d holds the regular file f and the symlink a
Trees ==
  {[id |-> 1, size |-> CHUNK_SIZE + REUPLOAD_SIZE, mtime |-> 1],
   [id |-> 2, size |-> CHUNK_SIZE + 100, mtime |-> 1]}
FilePath == "d/f"

HexDigit(n) ==
  CASE n = 0 -> "0" [] n = 1 -> "1" [] n = 2 -> "2" [] n = 3 -> "3"
    [] n = 4 -> "4" [] n = 5 -> "5" [] n = 6 -> "6" [] n = 7 -> "7"
    [] n = 8 -> "8" [] n = 9 -> "9"

\* A plaintext is known by its length and by tag, the hex digits that tell
\* two plaintexts apart.
Plain(tag, len) == [tag |-> tag, len |-> len]
NoPlain == Plain(<<>>, 0)
\* Blake2b over seed and content: distinct plaintexts, distinct hashes
Blake2b(content) == Hex(content.tag)
\* (mutant) the ciphertext alone, without the 12 bytes of nonce before it
Encrypt_NoNonce(content, nonce) == Bytes(nonce, content.tag, content.len)

\* push_chunk: 12 bytes of nonce, then the ChaCha20 stream over content
Encrypt(content, nonce) == Bytes(nonce, content.tag, content.len + 12)

Min(a, b) == IF a < b THEN a ELSE b

\* A text is a sequence of pieces; Comma is the separator of a chunk list.
Comma == Str(<<",">>, "0", 1)
Join(list) ==
  [k \in 1..(2 * Len(list) - 1) |->
     IF k % 2 = 1 THEN list[(k + 1) \div 2] ELSE Comma]
\* (mutant) the first piece only
Split_First(text) == IF text = <<>> THEN <<EmptyStr>> ELSE <<Head(text)>>

\* chunks.split(','): an empty text gives one empty piece
Split(text) ==
  IF text = <<>> THEN <<EmptyStr>> ELSE SelectSeq(text, LAMBDA t : t # Comma)
RECURSIVE TextLen(_)
TextLen(text) ==
  IF text = <<>> THEN 0 ELSE Head(text).len + TextLen(Tail(text))
RECURSIVE DecLen(_)
DecLen(n) == IF n < 10 THEN 1 ELSE 1 + DecLen(n \div 10)

\* the scan placeholder of a file: 65 * (size + CHUNK_SIZE - 1) / CHUNK_SIZE - 1
\* underscores, computed in 64 bits (65 * x is split so that no product
\* leaves 31 bits)
ScanLen(size) ==
  LET x == size + CHUNK_SIZE - 1
      q == x \div CHUNK_SIZE
      r == x % CHUNK_SIZE
      a == r \div 1048576
      b == r % 1048576
  IN 65 * q + a + ((64 * b + r) \div CHUNK_SIZE) - 1

DirEnt(name, etype, content, size, mtime) ==
  [name |-> name, etype |-> etype, content |-> content, size |-> size,
   mode |-> 420, uid |-> 1000, gid |-> 1000,
   mtime |-> mtime, atime |-> 1, ctime |-> 1]
\* EType's Display
ETypeText(etype) ==
  CASE etype = "File" -> "file" [] etype = "Dir" -> "dir" [] etype = "Link" -> "link"

\* derive(Ord) of DirEnt compares name first; names of one listing differ
NameLess(a, b) ==
  \E k \in 1..(Min(Len(a), Len(b)) + 1) :
    /\ \A j \in 1..(k - 1) : a[j] = b[j]
    /\ \/ k > Len(a) /\ k <= Len(b)
       \/ k <= Len(a) /\ k <= Len(b) /\ Ord(a[k]) < Ord(b[k])
\* the characters of a text, piece after piece
RECURSIVE Flat(_)
Flat(text) ==
  IF text = <<>> THEN <<>>
  ELSE [i \in 1..Head(text).len |-> CharAt(Head(text), i)] \o Flat(Tail(text))
\* derive(Ord) of EType: the variants in the order of their declaration
ETypeOrd(etype) ==
  CASE etype = "Dir" -> 0 [] etype = "File" -> 1 [] etype = "Link" -> 2
\* derive(Ord) of DirEnt: the fields in the order of their declaration
DirEntLess(a, b) ==
  IF a.name # b.name THEN NameLess(a.name, b.name)
  ELSE IF a.etype # b.etype THEN ETypeOrd(a.etype) < ETypeOrd(b.etype)
  ELSE IF a.content # b.content THEN NameLess(Flat(a.content), Flat(b.content))
  ELSE IF a.size # b.size THEN a.size < b.size
  ELSE IF a.mode # b.mode THEN a.mode < b.mode
  ELSE IF a.uid # b.uid THEN a.uid < b.uid
  ELSE IF a.gid # b.gid THEN a.gid < b.gid
  ELSE IF a.mtime # b.mtime THEN a.mtime < b.mtime
  ELSE IF a.atime # b.atime THEN a.atime < b.atime
  ELSE a.ctime < b.ctime

\* (mutant) the entries are left in the order they were found in
sort_None(entries) == entries

\* entries.sort()
sort(entries) ==
  LET n == Len(entries)
      at == CHOOSE f \in [1..n -> 1..n] :
              /\ \A i, j \in 1..n : i # j => f[i] # f[j]
              /\ \A i \in 1..(n - 1) :
                   ~DirEntLess(entries[f[i + 1]], entries[f[i]])
  IN [i \in 1..n |-> entries[at[i]]]

\* format!("{}\0{}\0...") of one entry: its length, and what tells it apart
EntLen(e) ==
  Len(e.name) + Len(ETypeText(e.etype)) + DecLen(e.size) + TextLen(e.content)
    + DecLen(e.mode) + DecLen(e.uid) + DecLen(e.gid)
    + DecLen(e.mtime) + DecLen(e.atime) + DecLen(e.ctime) + 9
RECURSIVE Pres(_)
Pres(list) == IF list = <<>> THEN <<>> ELSE Head(list).pre \o Pres(Tail(list))
EntTag(e) == e.name \o Pres(Split(e.content))
RECURSIVE EntsLen(_)
EntsLen(s) ==
  IF s = <<>> THEN 0
  ELSE EntLen(Head(s)) + (IF Tail(s) = <<>> THEN 0 ELSE 2) + EntsLen(Tail(s))
RECURSIVE EntsTag(_)
EntsTag(s) == IF s = <<>> THEN <<>> ELSE EntTag(Head(s)) \o EntsTag(Tail(s))
\* the decimal digits format!("{}", n) writes
RECURSIVE Dec(_)
Dec(n) == IF n < 10 THEN <<HexDigit(n)>> ELSE Dec(n \div 10) \o <<HexDigit(n % 10)>>
ETypeChars(etype) ==
  CASE etype = "File" -> <<"f", "i", "l", "e">>
    [] etype = "Dir" -> <<"d", "i", "r">>
    [] etype = "Link" -> <<"l", "i", "n", "k">>
Word(chars) == Str(chars, "0", Len(chars))
NulPiece == Word(<<NUL>>)

\* (mutant) content is written before size
format_ContentFirst(ent) ==
  <<Word(ent.name), NulPiece, Word(ETypeChars(ent.etype)), NulPiece>>
    \o ent.content
    \o <<NulPiece, Word(Dec(ent.size)), NulPiece,
         Word(Dec(ent.mode)), NulPiece, Word(Dec(ent.uid)), NulPiece,
         Word(Dec(ent.gid)), NulPiece, Word(Dec(ent.mtime)), NulPiece,
         Word(Dec(ent.atime)), NulPiece, Word(Dec(ent.ctime))>>

\* format!("{}\0{}\0{}\0{}\0{}\0{}\0{}\0{}\0{}\0{}", ent.name, ent.etype,
\* ent.size, ent.content, ent.mode, ent.uid, ent.gid, ent.mtime, ent.atime,
\* ent.ctime), as a text
format(ent) ==
  <<Word(ent.name), NulPiece, Word(ETypeChars(ent.etype)), NulPiece,
    Word(Dec(ent.size)), NulPiece>>
    \o ent.content
    \o <<NulPiece, Word(Dec(ent.mode)), NulPiece, Word(Dec(ent.uid)), NulPiece,
         Word(Dec(ent.gid)), NulPiece, Word(Dec(ent.mtime)), NulPiece,
         Word(Dec(ent.atime)), NulPiece, Word(Dec(ent.ctime))>>

\* the loop of push_ents over the sorted entries: two NULs go before an
\* entry when ans is not empty
RECURSIVE push_str(_, _)
push_str(ans, entries) ==
  IF entries = <<>> THEN ans
  ELSE push_str((IF ans # <<>> THEN ans \o <<NulPiece, NulPiece>> ELSE ans)
                  \o format(Head(entries)),
                Tail(entries))

\* push_ents: ans, the serialization of the sorted entries
Serialize(entries) ==
  Plain(<<"e">> \o EntsTag(sort(entries)), EntsLen(sort(entries)))

RECURSIVE bytes_ents(_)
bytes_ents(entries) ==
  IF entries = <<>> THEN 0
  ELSE Len(Head(entries).name) + 25 + TextLen(Head(entries).content)
         + (IF Tail(entries) = <<>> THEN 0 ELSE 1) + bytes_ents(Tail(entries))

\* what the read loop of backup_file gets on its i-th turn
Buffer == Min(tree.size, CHUNK_SIZE)
Used(i) ==
  LET left == tree.size - (i - 1) * CHUNK_SIZE
  IN IF left <= 0 THEN 0 ELSE Min(Buffer, left)
FileChunk(i) == Plain(<<"c", HexDigit(tree.id), HexDigit(i)>>, Used(i))

\* the entries backup_folder collects in d, in read_dir's order
Entries(content) ==
  <<DirEnt(<<"f">>, "File", content, tree.size, tree.mtime),
    DirEnt(<<"a">>, "Link", <<Str(<<"b">>, "0", 1)>>, 0, 1)>>
\* the entry run() makes of d
RootEntries(content, size) == <<DirEnt(<<"d">>, "Dir", <<content>>, size, 1)>>

StatusReq == Request("GET_STATUS", ClientAuth, B1, EmptyStr, NoBytes, <<>>)
HeadReq(chunk) == Request("HEAD_CHUNK", ClientAuth, B1, chunk, NoBytes, <<>>)
PutReq(chunk, body) == Request("PUT_CHUNK", ClientAuth, B1, chunk, body, <<>>)
RootReq(root) ==
  [Request("PUT_ROOT", ClientAuth, B1, EmptyStr, NoBytes, <<>>)
     EXCEPT !.host = Hostname, !.text = root]

\* size: the Option<usize> has_chunk was given, -1 for None
Client(at) ==
  [pc |-> at, ret |-> "", after |-> "", chunk |-> EmptyStr, size |-> -1,
   hc |-> "", probed |-> FALSE, content |-> NoPlain, i |-> 0,
   list |-> <<>>, file |-> <<>>]
NoState == [scan |-> TRUE, transfer_bytes |-> 0, last_delete |-> 0]

\* runs: runs started; ok: the last run returned Ok; prevok: the run
\* before it did; puts, heads, cached: the PUT /chunks sent, the HEAD
\* answers got and the chunks answered YesCached in the last run; dirty:
\* chunks whose remote row was written before the latest delete; stale:
\* those of them that were so when the last run's GET /status was
\* processed; delrun: a delete was processed during the last run;
\* delprev: one was during the run before it; delgap: one was since the
\* last run ended; gap: one was between those two runs; dels: the deletes
\* processed; lost: the chunks of the file the server held no row of when
\* the last run started; epoch: last_delete of the run before the last;
\* refs: the hashes each pushed serialization names
NoHist ==
  [runs |-> 0, ok |-> FALSE, prevok |-> FALSE, puts |-> {}, heads |-> {},
   cached |-> {}, dirty |-> {}, stale |-> {}, delrun |-> FALSE,
   delprev |-> FALSE, delgap |-> FALSE, gap |-> FALSE, dels |-> 0, lost |-> {}, epoch |-> 0, refs |-> {},
   neterr |-> FALSE]

ClientInit(t, k) ==
  /\ tree = t
  /\ skew = k
  /\ remote = {}
  /\ files = {}
  /\ state = NoState
  /\ cl = Client("idle")
  /\ hist = NoHist

\* the server alone: the client never runs
Init == ServerInit /\ ClientInit(CHOOSE t \in Trees : t.id = 1, 0)

(***************************************************************************)
(* The client's steps.  p is the handler that serves its connection: a     *)
(* request is sent in the step in which the handler takes it up, and the   *)
(* response is received in the step that frees the handler.                *)
(***************************************************************************)
\* strftime('%s', 'now') on the client
ClientTime == now + skew

\* run() returns Err
\* (mutant) the error is dropped and backup_file goes on to its files row
Fail_Ignored ==
  /\ cl' = [cl EXCEPT !.pc = "backup_file_done"]
  /\ hist' = hist

Fail ==
  /\ cl' = Client("idle")
  /\ hist' = [hist EXCEPT !.ok = FALSE]

\* run(): the cache tables, the State, GET /status/{bucket}
run(p) ==
  /\ cl.pc = "idle"
  /\ hist.runs < MaxRuns
  /\ handle_get_status(p, StatusReq)
  /\ state' = NoState
  /\ cl' = Client("run_last_delete")
  /\ hist' = [hist EXCEPT !.runs = @ + 1, !.prevok = hist.ok, !.ok = FALSE,
                          !.puts = {}, !.heads = {}, !.cached = {},
                          !.neterr = FALSE,
                          !.stale = hist.dirty,
                          !.lost = {h \in {Blake2b(FileChunk(1)), Blake2b(FileChunk(2))} :
                                      ChunkRows(B1, h) = {}},
                          !.epoch = state.last_delete,
                          !.delprev = hist.delrun, !.delrun = FALSE,
                          !.gap = hist.delgap, !.delgap = FALSE]
  /\ UNCHANGED <<tree, skew, remote, files>>

\* state.last_delete = check_response(..)?.text()?.parse()?; then the scan
\* pass enters backup_folder and comes to the file
run_last_delete(p) ==
  /\ cl.pc = "run_last_delete"
  /\ pc[p] = "done"
  /\ Return(p)
  /\ IF resp[p].code = 200 THEN
       /\ state' = [state EXCEPT !.last_delete = resp[p].value]
       /\ cl' = Client("backup_file")
       /\ UNCHANGED hist
     ELSE Fail /\ UNCHANGED state
  /\ UNCHANGED <<tree, skew, remote, files>>

\* (mutant) a row as old as the delete epoch counts
HasRemote_NotOlder(chunk) ==
  Cardinality({r \in remote : r.chunk = chunk /\ r.time >= state.last_delete})

\* (mutant) a row counts whatever its time
HasRemote_AnyTime(chunk) == Cardinality({r \in remote : r.chunk = chunk})

\* SELECT count(*) FROM remote WHERE chunk = ? AND time > ?
HasRemote(chunk) ==
  Cardinality({r \in remote : r.chunk = chunk /\ r.time > state.last_delete})

\* has_chunk up to its answer or to the HEAD it sends
has_chunk(p, chunk, size, ret) ==
  LET c == [cl EXCEPT !.chunk = chunk, !.size = size, !.ret = ret,
                      !.probed = FALSE, !.hc = ""]
  IN
  IF HasRemote(chunk) = 1 THEN
    /\ cl' = [c EXCEPT !.hc = "YesCached", !.pc = ret]
    /\ hist' = [hist EXCEPT !.cached = @ \cup {chunk}]
    /\ UNCHANGED serverSide
  ELSE IF size # -1 /\ size < REUPLOAD_SIZE THEN
    /\ cl' = [c EXCEPT !.hc = "No", !.pc = ret]
    /\ UNCHANGED <<serverSide, hist>>
  ELSE
    /\ handle_get_chunk(p, HeadReq(chunk), TRUE)
    /\ cl' = [c EXCEPT !.probed = TRUE, !.pc = "has_chunk_head"]
    /\ UNCHANGED hist

\* (mutant) a chunk the server does not hold passes for one it holds
HeadResult_Always(code) == "Yes"

\* match res.status(): OK => Yes, NOT_FOUND => No
HeadResult(code) == IF code = 200 THEN "Yes" ELSE "No"

\* the answer to the HEAD
has_chunk_head(p) ==
  /\ cl.pc = "has_chunk_head"
  /\ pc[p] = "done"
  /\ Return(p)
  /\ IF resp[p].code \in {200, 404} THEN
       /\ cl' = [cl EXCEPT !.hc = HeadResult(resp[p].code), !.pc = cl.ret]
       /\ hist' = [hist EXCEPT !.heads =
                     @ \cup {[chunk |-> cl.chunk, code |-> resp[p].code]}]
     ELSE Fail
  /\ UNCHANGED <<tree, skew, remote, files, state>>

\* backup_file up to the fast path: the empty file, the row of files
backup_file ==
  LET rows == {f \in files : /\ f.path = FilePath
                             /\ f.size = tree.size
                             /\ f.mtime = tree.mtime}
  IN
  /\ cl.pc = "backup_file"
  /\ cl' = IF tree.size = 0
             THEN [cl EXCEPT !.file = <<Str(<<"e", "m", "p", "t", "y">>, "0", 5)>>,
                             !.pc = "backup_folder"]
           ELSE IF ~recheck /\ rows # {}
             THEN [cl EXCEPT !.list = Split((CHOOSE f \in rows : TRUE).chunks),
                             !.file = (CHOOSE f \in rows : TRUE).chunks,
                             !.i = 1, !.pc = "backup_file_fast"]
           ELSE [cl EXCEPT !.pc = "backup_file_scan"]
  /\ UNCHANGED <<serverSide, tree, skew, remote, files, state, hist>>

\* for chunk in chunks.split(','): has_chunk(chunk, state, None)
backup_file_fast(p) ==
  /\ cl.pc = "backup_file_fast"
  /\ IF cl.i > Len(cl.list) THEN
       /\ cl' = [cl EXCEPT !.pc = "backup_folder"]
       /\ UNCHANGED <<serverSide, hist>>
     ELSE has_chunk(p, cl.list[cl.i], -1, "backup_file_good")
  /\ UNCHANGED <<tree, skew, remote, files, state>>

\* == HasChunkResult::No: good = false, break
backup_file_good ==
  /\ cl.pc = "backup_file_good"
  /\ cl' = IF cl.hc = "No"
             THEN [cl EXCEPT !.list = <<>>, !.file = <<>>, !.i = 0,
                             !.pc = "backup_file_scan"]
             ELSE [cl EXCEPT !.i = @ + 1, !.pc = "backup_file_fast"]
  /\ UNCHANGED <<serverSide, tree, skew, remote, files, state, hist>>

\* (mutant) the scan pass opens the file as the transfer pass does
backup_file_scan_Opens ==
  /\ cl.pc = "backup_file_scan"
  /\ cl' = [cl EXCEPT !.list = <<>>, !.i = 1, !.pc = "backup_file_read"]
  /\ UNCHANGED state
  /\ UNCHANGED <<serverSide, tree, skew, remote, files, hist>>

\* past the fast path: the placeholder of the scan pass, or File::open
backup_file_scan ==
  /\ cl.pc = "backup_file_scan"
  /\ IF state.scan THEN
       /\ state' = [state EXCEPT !.transfer_bytes = @ + tree.size]
       /\ cl' = [cl EXCEPT !.file = <<Str(<<>>, "_", ScanLen(tree.size))>>,
                           !.pc = "backup_folder"]
     ELSE
       /\ cl' = [cl EXCEPT !.list = <<>>, !.i = 1, !.pc = "backup_file_read"]
       /\ UNCHANGED state
  /\ UNCHANGED <<serverSide, tree, skew, remote, files, hist>>

\* (mutant) the read loop records the chunk's hash and pushes nothing
backup_file_read_NoPush ==
  /\ cl.pc = "backup_file_read"
  /\ cl' = IF Used(cl.i) = 0
             THEN [cl EXCEPT !.pc = "backup_file_done"]
             ELSE [cl EXCEPT !.content = FileChunk(cl.i),
                             !.chunk = Blake2b(FileChunk(cl.i)),
                             !.pc = "backup_file_next"]
  /\ UNCHANGED <<serverSide, tree, skew, remote, files, state, hist>>

\* one turn of the read loop, up to push_chunk(&buffer[..used])
backup_file_read ==
  /\ cl.pc = "backup_file_read"
  /\ cl' = IF Used(cl.i) = 0
             THEN [cl EXCEPT !.pc = "backup_file_done"]
             ELSE [cl EXCEPT !.content = FileChunk(cl.i),
                             !.after = "backup_file_next",
                             !.pc = "push_chunk"]
  /\ UNCHANGED <<serverSide, tree, skew, remote, files, state, hist>>

\* (mutant) push_chunk leaves the cache as it is
update_remote_Never(hash) == UNCHANGED <<remote, hist>>

\* REPLACE INTO remote VALUES (hash, now)
update_remote(hash) ==
  /\ remote' = {r \in remote : r.chunk # hash}
                 \cup {[chunk |-> hash, time |-> ClientTime]}
  /\ hist' = [hist EXCEPT !.dirty = @ \ {hash}, !.stale = @ \ {hash}]

\* push_chunk: the hash, then has_chunk(&hash, state, Some(content.len()))
\* (mutant) has_chunk is asked without the size
push_chunk_NoSize(p) ==
  /\ cl.pc = "push_chunk"
  /\ has_chunk(p, Blake2b(cl.content), -1, "push_chunk_put")
  /\ UNCHANGED <<tree, skew, remote, files, state>>

push_chunk(p) ==
  /\ cl.pc = "push_chunk"
  /\ has_chunk(p, Blake2b(cl.content), cl.content.len, "push_chunk_put")
  /\ UNCHANGED <<tree, skew, remote, files, state>>

\* hc == No: encrypt and PUT; otherwise the remote row, unless YesCached
push_chunk_put(p) ==
  /\ cl.pc = "push_chunk_put"
  /\ IF cl.hc = "No" THEN
       /\ \E nonce \in 1..MaxNonce :
            handle_put_chunk(p, PutReq(cl.chunk, Encrypt(cl.content, nonce)))
       /\ cl' = [cl EXCEPT !.pc = "push_chunk_done"]
       /\ hist' = [hist EXCEPT !.puts = @ \cup {cl.chunk}]
       /\ UNCHANGED remote
     ELSE
       /\ cl' = [cl EXCEPT !.pc = cl.after]
       /\ IF cl.hc # "YesCached" THEN update_remote(cl.chunk)
          ELSE UNCHANGED <<remote, hist>>
       /\ UNCHANGED serverSide
  /\ UNCHANGED <<tree, skew, files, state>>

\* (mutant) only 200 is a success
push_chunk_done_Only200(p) ==
  /\ cl.pc = "push_chunk_done"
  /\ pc[p] = "done"
  /\ Return(p)
  /\ IF resp[p].code = 200 THEN
       /\ cl' = [cl EXCEPT !.pc = cl.after]
       /\ update_remote(cl.chunk)
     ELSE Fail /\ UNCHANGED remote
  /\ UNCHANGED <<tree, skew, files, state>>

\* the answer to the PUT: 200 and 409 are fine, then the remote row
push_chunk_done(p) ==
  /\ cl.pc = "push_chunk_done"
  /\ pc[p] = "done"
  /\ Return(p)
  /\ IF resp[p].code \in {200, 409} THEN
       /\ cl' = [cl EXCEPT !.pc = cl.after]
       /\ update_remote(cl.chunk)
     ELSE Fail /\ UNCHANGED remote
  /\ UNCHANGED <<tree, skew, files, state>>

\* chunks.push_str(hash); if used != buffer.len() { break }
backup_file_next ==
  /\ cl.pc = "backup_file_next"
  /\ cl' = [cl EXCEPT !.list = Append(@, cl.chunk),
                      !.i = IF Used(cl.i) # Buffer THEN @ ELSE @ + 1,
                      !.pc = IF Used(cl.i) # Buffer THEN "backup_file_done"
                             ELSE "backup_file_read"]
  /\ UNCHANGED <<serverSide, tree, skew, remote, files, state, hist>>

\* REPLACE INTO files (path, size, mtime, chunks)
backup_file_done ==
  /\ cl.pc = "backup_file_done"
  /\ files' = {f \in files : f.path # FilePath}
                \cup {[path |-> FilePath, size |-> tree.size,
                       mtime |-> tree.mtime, chunks |-> Join(cl.list)]}
  /\ cl' = [cl EXCEPT !.file = Join(cl.list), !.pc = "backup_folder"]
  /\ UNCHANGED <<serverSide, tree, skew, remote, state, hist>>

\* Ok(("00000000000000000000000000000000".to_string(), size)): what
\* backup_folder returns for a directory in the scan pass
ScanDirHash == Str(<<>>, "0", 32)

\* the end of backup_folder: in the scan pass bytes_ents, and run() goes on
\* to the transfer pass; in the transfer pass push_ents
backup_folder ==
  LET entries == Entries(cl.file)
      ans == Serialize(entries)
  IN
  /\ cl.pc = "backup_folder"
  /\ IF state.scan THEN
       /\ state' = [state EXCEPT !.transfer_bytes = @ + bytes_ents(entries),
                                 !.scan = FALSE]
       /\ cl' = [Client("backup_file") EXCEPT !.chunk = ScanDirHash]
       /\ UNCHANGED hist
     ELSE
       /\ cl' = [cl EXCEPT !.content = ans, !.after = "run_root",
                           !.pc = "push_chunk"]
       /\ hist' = [hist EXCEPT !.refs = @ \cup
                     {[from |-> Blake2b(ans), to |-> h] :
                        h \in Elems(Split(cl.file))}]
       /\ UNCHANGED state
  /\ UNCHANGED <<serverSide, tree, skew, remote, files>>

\* run(): the entry of the directory, push_ents of the top-level list
run_root ==
  LET ans == Serialize(RootEntries(cl.chunk, cl.content.len)) IN
  /\ cl.pc = "run_root"
  /\ cl' = [cl EXCEPT !.content = ans, !.after = "run_put_root",
                      !.pc = "push_chunk"]
  /\ hist' = [hist EXCEPT !.refs = @ \cup
                {[from |-> Blake2b(ans), to |-> cl.chunk]}]
  /\ UNCHANGED <<serverSide, tree, skew, remote, files, state>>

\* PUT /roots/{bucket}/{hostname} with the root's hash
run_put_root(p) ==
  /\ cl.pc = "run_put_root"
  /\ handle_put_root(p, RootReq(cl.chunk))
  /\ cl' = [cl EXCEPT !.pc = "run_done"]
  /\ UNCHANGED <<tree, skew, remote, files, state, hist>>

\* check_response of the PUT /roots: run() returns
run_done(p) ==
  /\ cl.pc = "run_done"
  /\ pc[p] = "done"
  /\ Return(p)
  /\ IF resp[p].code = 200 THEN
       /\ cl' = Client("idle")
       /\ hist' = [hist EXCEPT !.ok = TRUE]
     ELSE Fail
  /\ UNCHANGED <<tree, skew, remote, files, state>>

(***************************************************************************)
(* ClientSpec: runs of the client against the server, while an             *)
(* administrator deletes chunks of the file and the clock advances.        *)
(***************************************************************************)
AdminRequests ==
  {Request("DELETE_CHUNK", BasicAuth("dora", "d1"), B1,
           Hex(<<"c", HexDigit(tree.id), HexDigit(i)>>), NoBytes, <<>>) :
     i \in 1..2}

\* a chunk delete by the administrator, and what it means to the client's
\* cache: every remote row there is was written before it
Delete(p, r) ==
  /\ hist.dels < MaxDeletes
  /\ handle_delete_chunk(p, r)
  /\ hist' = [hist EXCEPT !.dirty = {x.chunk : x \in remote},
                          !.dels = @ + 1,
                          !.delrun = @ \/ cl.pc # "idle",
                          !.delgap = @ \/ cl.pc = "idle"]
  /\ UNCHANGED <<tree, skew, remote, files, state, cl>>

ClientStart ==
  /\ ServerInit
  /\ \E t \in Trees : \E k \in (0 - MaxSkew)..MaxSkew : ClientInit(t, k)

\* The client's local work between two requests takes no time: the clock
\* and the administrator move while the client is idle, about to send, or
\* waiting for a response; and the administrator takes its response at once.
Local ==
  {"backup_file", "backup_file_good", "backup_file_scan", "backup_file_read",
   "backup_file_next", "backup_file_done", "backup_folder", "run_root"}
Prompt == \A q \in Procs \ {Conn} : pc[q] # "done"
Settled == Prompt /\ cl.pc \notin Local

ClientNext ==
  \/ Prompt /\ run(Conn)
  \/ Prompt /\ run_last_delete(Conn)
  \/ Prompt /\ backup_file
  \/ Prompt /\ backup_file_fast(Conn)
  \/ Prompt /\ backup_file_good
  \/ Prompt /\ backup_file_scan
  \/ Prompt /\ backup_file_read
  \/ Prompt /\ backup_file_next
  \/ Prompt /\ backup_file_done
  \/ Prompt /\ has_chunk_head(Conn)
  \/ Prompt /\ push_chunk(Conn)
  \/ Prompt /\ push_chunk_put(Conn)
  \/ Prompt /\ push_chunk_done(Conn)
  \/ Prompt /\ backup_folder
  \/ Prompt /\ run_root
  \/ Prompt /\ run_put_root(Conn)
  \/ Prompt /\ run_done(Conn)
  \/ \E p \in Procs :
       \/ Prompt /\ put_chunk_body(p) /\ UNCHANGED clientVars
       \/ Prompt /\ put_chunk_insert(p) /\ UNCHANGED clientVars
       \/ Prompt /\ put_chunk_rename(p) /\ UNCHANGED clientVars
  \/ \E p \in Procs \ {Conn} :
       \/ \E r \in AdminRequests : Settled /\ Delete(p, r)
       \/ Return(p) /\ UNCHANGED clientVars
  \/ Settled /\ Tick /\ UNCHANGED clientVars

ClientSpec == ClientStart /\ [][ClientNext]_vars

(***************************************************************************)
(* Spec: one chunk of one bucket under concurrent requests of an           *)
(* authorized client population (PUT with an inline and with two external  *)
(* bodies, GET, HEAD, DELETE).                                             *)
(***************************************************************************)
Admin == BasicAuth("dora", "d1")
Small1 == Bytes(1, <<"s">>, 14)
Large1 == Bytes(1, <<"l">>, SMALL_SIZE + 12)
Large2 == Bytes(2, <<"l">>, SMALL_SIZE + 12)

RaceRequests ==
  {Request("PUT_CHUNK", Admin, B1, H1, b, <<>>) : b \in {Small1, Large1, Large2}}
    \cup {Request(op, Admin, B1, H1, NoBytes, <<>>) :
            op \in {"GET_CHUNK", "HEAD_CHUNK", "DELETE_CHUNK"}}

Next ==
  \/ \E p \in Procs : \E r \in RaceRequests :
       \/ handle_put_chunk(p, r) /\ UNCHANGED clientVars
       \/ handle_get_chunk(p, r, FALSE) /\ UNCHANGED clientVars
       \/ handle_get_chunk(p, r, TRUE) /\ UNCHANGED clientVars
       \/ handle_delete_chunk(p, r) /\ UNCHANGED clientVars
  \/ \E p \in Procs :
       \/ put_chunk_body(p) /\ UNCHANGED clientVars
       \/ put_chunk_insert(p) /\ UNCHANGED clientVars
       \/ put_chunk_rename(p) /\ UNCHANGED clientVars
       \/ get_chunk_read(p) /\ UNCHANGED clientVars
       \/ Return(p) /\ UNCHANGED clientVars

Spec == Init /\ [][Next]_vars

(***************************************************************************)
(* DeleteSpec: three chunks of one bucket, of which H3 is never stored,    *)
(* under PUT, single and bulk DELETE and GET /status sent one at a time    *)
(* over either connection, with the clock advancing.                       *)
(***************************************************************************)
DeleteLists == {<<H3>>, <<H1, H3>>, <<H1, H2>>, <<H1, H1>>}

DeleteRequests ==
  {Request("PUT_CHUNK", Admin, B1, h, b, <<>>) :
     h \in {H1, H2}, b \in {Small1, Large1}}
    \cup {Request("DELETE_CHUNK", Admin, B1, h, NoBytes, <<>>) : h \in {H1, H3}}
    \cup {Request("DELETE_CHUNKS", Admin, B1, EmptyStr, NoBytes, l) : l \in DeleteLists}
    \cup {Request("GET_STATUS", Admin, B1, EmptyStr, NoBytes, <<>>)}

\* the clients of this specification send one request at a time
Quiet == \A q \in Procs : pc[q] = "idle"

DeleteNext ==
  \/ \E p \in Procs : \E r \in DeleteRequests :
       \/ Quiet /\ handle_put_chunk(p, r) /\ UNCHANGED clientVars
       \/ Quiet /\ handle_delete_chunk(p, r) /\ UNCHANGED clientVars
       \/ Quiet /\ handle_delete_chunks(p, r) /\ UNCHANGED clientVars
       \/ Quiet /\ handle_get_status(p, r) /\ UNCHANGED clientVars
  \/ \E p \in Procs :
       \/ put_chunk_body(p) /\ UNCHANGED clientVars
       \/ put_chunk_insert(p) /\ UNCHANGED clientVars
       \/ put_chunk_rename(p) /\ UNCHANGED clientVars
       \/ delete_chunks_body(p) /\ UNCHANGED clientVars
       \/ Return(p) /\ UNCHANGED clientVars
  \/ Tick /\ UNCHANGED clientVars

DeleteSpec == Init /\ [][DeleteNext]_vars

(***************************************************************************)
(* AuthSpec: every operation of the server, sent one at a time with each   *)
(* kind of Authorization header (none, each configured user, a wrong       *)
(* password, another scheme).                                              *)
(***************************************************************************)
Gina == BasicAuth("gina", "g1")
Paul == BasicAuth("paul", "p1")
Dora == BasicAuth("dora", "d1")
AuthHeaders ==
  {NoAuth, Gina, Paul, Dora, BasicAuth("paul", "d1"),
   [scheme |-> "Bearer", cred |-> Base64("paul:p1")]}

Operations ==
  {"GET_STATUS", "GET_CHUNK", "HEAD_CHUNK", "PUT_CHUNK", "DELETE_CHUNK",
   "DELETE_CHUNKS", "LIST_CHUNKS", "GET_ROOTS", "PUT_ROOT", "DELETE_ROOT"}

AuthShapes ==
  {[Request(op, a, B1, H1, IF op = "PUT_CHUNK" THEN Small1 ELSE NoBytes,
            IF op = "DELETE_CHUNKS" THEN <<H1>> ELSE <<>>)
      EXCEPT !.host = IF op = "PUT_ROOT" THEN <<"p", "c">> ELSE <<>>,
             !.text = IF op = "PUT_ROOT" THEN H1 ELSE EmptyStr,
             !.id = IF op = "DELETE_ROOT" THEN 1 ELSE 0,
             !.validate = v]
     : op \in Operations, a \in AuthHeaders, v \in BOOLEAN}
\* ?validate is a parameter of the listing only
AuthRequests == {r \in AuthShapes : r.validate => r.op = "LIST_CHUNKS"}

AuthNext ==
  \/ \E p \in Procs : \E r \in AuthRequests :
       \/ Quiet /\ handle_get_status(p, r) /\ UNCHANGED clientVars
       \/ Quiet /\ handle_get_chunk(p, r, FALSE) /\ UNCHANGED clientVars
       \/ Quiet /\ handle_get_chunk(p, r, TRUE) /\ UNCHANGED clientVars
       \/ Quiet /\ handle_put_chunk(p, r) /\ UNCHANGED clientVars
       \/ Quiet /\ handle_delete_chunk(p, r) /\ UNCHANGED clientVars
       \/ Quiet /\ handle_delete_chunks(p, r) /\ UNCHANGED clientVars
       \/ Quiet /\ handle_list_chunks(p, r) /\ UNCHANGED clientVars
       \/ Quiet /\ handle_get_roots(p, r) /\ UNCHANGED clientVars
       \/ Quiet /\ handle_put_root(p, r) /\ UNCHANGED clientVars
       \/ Quiet /\ handle_delete_root(p, r) /\ UNCHANGED clientVars
  \/ \E p \in Procs :
       \/ put_chunk_body(p) /\ UNCHANGED clientVars
       \/ delete_chunks_body(p) /\ UNCHANGED clientVars
       \/ Return(p) /\ UNCHANGED clientVars

AuthSpec == Init /\ [][AuthNext]_vars

(***************************************************************************)
(* Claims on authorization (AuthSpec).                                     *)
(***************************************************************************)
\* the order and the required levels as the claim gives them
C9_Order(level) == CASE level = "Get" -> 1 [] level = "Put" -> 2 [] level = "Delete" -> 3
C9_Required(r) ==
  CASE r.op = "GET_CHUNK" -> "Get"
    [] r.op \in {"HEAD_CHUNK", "PUT_CHUNK", "GET_STATUS", "PUT_ROOT"} -> "Put"
    [] r.op = "LIST_CHUNKS" -> (IF r.validate THEN "Get" ELSE "Put")
    [] r.op = "GET_ROOTS" -> "Get"
    [] r.op \in {"DELETE_CHUNK", "DELETE_CHUNKS", "DELETE_ROOT"} -> "Delete"
C9_Authorized(r) ==
  \E i \in 1..Len(ConfigUsers) :
    /\ r.auth = BasicAuth(ConfigUsers[i].name, ConfigUsers[i].password)
    /\ C9_Order(ConfigUsers[i].access_level) >= C9_Order(C9_Required(r))

(* C9: with Get < Put < Delete and the required level of each operation,    *)
(* a request is authorized exactly when its Basic credentials are those of  *)
(* a configured user of at least the required level; every other request    *)
(* is answered 401 and changes no server state.                             *)
C9_AuthorizedIffLevel ==
  [][\A p \in Procs :
       (pc[p] = "idle" /\ pc'[p] # "idle") =>
         /\ C9_Authorized(req'[p]) <=> ~(pc'[p] = "done" /\ resp'[p].code = 401)
         /\ ~C9_Authorized(req'[p]) =>
              /\ pc'[p] = "done" /\ resp'[p].code = 401
              /\ UNCHANGED serverVars]_vars

\* a configured user below the required level was answered 401, and the
\* chunk it asked to delete is still there
C9_Witness ==
  \E p \in Procs :
    /\ pc[p] = "done" /\ req[p].op = "DELETE_CHUNK" /\ req[p].auth = Paul
    /\ resp[p].code = 401
    /\ ChunkRows(req[p].bucket, req[p].chunk) # {}

ChunkAnswer(p, op, auth) ==
  pc[p] = "done" /\ req[p].op = op /\ req[p].auth = auth

(* C10 as claimed: a Put user can HEAD a chunk but is refused (401) on GET; *)
(* a Get user can GET but is refused on PUT; a Delete user is allowed       *)
(* HEAD, GET and PUT.                                                       *)
C10_PutUserRefusedOnGet ==
  \A p \in Procs :
    /\ ChunkAnswer(p, "HEAD_CHUNK", Paul) => resp[p].code # 401
    /\ ChunkAnswer(p, "GET_CHUNK", Paul) => resp[p].code = 401
    /\ ChunkAnswer(p, "GET_CHUNK", Gina) => resp[p].code # 401
    /\ ChunkAnswer(p, "PUT_CHUNK", Gina) => resp[p].code = 401
    /\ \A op \in {"HEAD_CHUNK", "GET_CHUNK", "PUT_CHUNK"} :
         ChunkAnswer(p, op, Dora) => resp[p].code # 401

(* C10 as amended: a Put user can HEAD and PUT a chunk and, the levels      *)
(* being cumulative, GET it too; a Get user can GET a chunk but is refused  *)
(* (401) on PUT and on HEAD; a Delete user is allowed HEAD, GET and PUT.    *)
C10_LevelsAreCumulative ==
  \A p \in Procs :
    /\ \A op \in {"HEAD_CHUNK", "GET_CHUNK", "PUT_CHUNK"} :
         /\ ChunkAnswer(p, op, Paul) => resp[p].code # 401
         /\ ChunkAnswer(p, op, Dora) => resp[p].code # 401
    /\ ChunkAnswer(p, "GET_CHUNK", Gina) => resp[p].code # 401
    /\ ChunkAnswer(p, "PUT_CHUNK", Gina) => resp[p].code = 401
    /\ ChunkAnswer(p, "HEAD_CHUNK", Gina) => resp[p].code = 401

\* the Put user's GET of a stored chunk was answered 200 with its body
C10_Witness ==
  \E p \in Procs :
    /\ ChunkAnswer(p, "GET_CHUNK", Paul)
    /\ resp[p].code = 200 /\ resp[p].data = Small1

\* what a HEAD and a GET of (bucket, hash) are answered in the current state
HeadCode(bucket, hash) == IF ChunkRows(bucket, hash) = {} THEN 404 ELSE 200
GetAnswers(bucket, hash) ==
  IF ChunkRows(bucket, hash) = {} THEN {Status(404)}
  ELSE {IF ~row.ext THEN Response(200, row.size, row.content, 0)
        ELSE IF FileAt(chunk_path(bucket, hash)) = {} THEN Status(500)
        ELSE Response(200, row.size,
                      (CHOOSE f \in FileAt(chunk_path(bucket, hash)) : TRUE).data, 0)
          : row \in ChunkRows(bucket, hash)}

PutServed(p) ==
  /\ pc[p] = "done"
  /\ req[p].op = "PUT_CHUNK"
  /\ resp[p].code \notin {400, 401}

(* C1: two PUT /chunks requests for the same (bucket, hash) handled         *)
(* concurrently, with no delete of the chunk meanwhile, are answered one    *)
(* 200 and the other 409, and the chunk is then present for HEAD.           *)
C1_RacingPutsOne200One409 ==
  \A p \in Procs : \A q \in Procs \ {p} :
    ( /\ PutServed(p) /\ PutServed(q)
      /\ req[p].bucket = req[q].bucket /\ req[p].chunk = req[q].chunk
      /\ q \in conc[p]
      /\ ~local[p].delseen /\ ~local[q].delseen
      /\ \E a \in acked : a.bucket = req[p].bucket /\ a.hash = req[p].chunk )
    => /\ {resp[p].code, resp[q].code} = {200, 409}
       /\ HeadCode(req[p].bucket, req[p].chunk) = 200

(* C6: after a PUT /chunks/{b}/{h} with body B was answered 200, and while  *)
(* no delete of (b,h) is processed, HEAD is answered 200 and GET is         *)
(* answered 200 with exactly B, inline or external.                         *)
C6_AckedPutReadsBack ==
  \A a \in acked :
    /\ HeadCode(a.bucket, a.hash) = 200
    /\ \A g \in GetAnswers(a.bucket, a.hash) : g.code = 200 /\ g.data = a.data

(***************************************************************************)
(* Claims on the delete epoch and on bulk deletes (DeleteSpec).            *)
(***************************************************************************)
IsDelete(r) == r.op \in {"DELETE_CHUNK", "DELETE_CHUNKS"}

\* handler p returns from do_delete_chunks in this step
DeleteProcessed(p) ==
  /\ pc[p] # "done" /\ pc'[p] = "done"
  /\ IsDelete(req'[p])
  /\ resp'[p].code \in {200, 404}

(* C4 as claimed: after every DELETE /chunks processed on bucket b, GET     *)
(* /status/{b} returns a strictly larger value than before, also for two    *)
(* deletes in one clock second and for a delete that removes no row.        *)
C4_EpochStrictlyLarger ==
  [][\A p \in Procs :
       DeleteProcessed(p) =>
         TimeIn(deletes', req'[p].bucket) > TimeIn(deletes, req'[p].bucket)]_vars

(* C4 as amended: after every DELETE /chunks processed on bucket b (also    *)
(* one that removes no row) GET /status/{b} returns the second the delete   *)
(* ran in: never less than before, and strictly more whenever the value     *)
(* before was not already that second.                                      *)
C4_EpochIsDeleteSecond ==
  [][\A p \in Procs :
       DeleteProcessed(p) =>
         LET b == req'[p].bucket
             before == TimeIn(deletes, b)
             after == TimeIn(deletes', b)
         IN
         /\ after = now
         /\ after >= before
         /\ (before # now => after > before)]_vars

\* a delete that removed no row has set the epoch to a second past the first
C4_Witness ==
  \E p \in Procs :
    /\ pc[p] = "done" /\ IsDelete(req[p]) /\ resp[p].code = 404
    /\ local[p].count = 0
    /\ now > FirstSecond /\ StatusTime(req[p].bucket) = now

(* C8: a bulk DELETE /chunks/{b} listing at least one hash without a row    *)
(* in b is answered 404, yet every listed chunk that had a row lost it and  *)
(* its external file, nothing unlisted was removed, and the delete epoch    *)
(* of b is the current second.                                              *)
C8_PartialBulkDelete ==
  [][\A p \in Procs :
       ( /\ pc[p] = "delete_body" /\ pc'[p] = "done"
         /\ \A h \in Elems(req[p].list) : check_hash(h)
         /\ \E h \in Elems(req[p].list) : ChunkRows(req[p].bucket, h) = {} )
       => LET b == req[p].bucket
              listed == Elems(req[p].list)
          IN
          /\ resp'[p].code = 404
          /\ \A row \in chunks :
               IF row.bucket = b /\ row.hash \in listed
                 THEN /\ row \notin chunks'
                      /\ RowsIn(chunks', b, row.hash) = {}
                      /\ row.ext => FileIn(disk', chunk_path(b, row.hash)) = {}
                 ELSE row \in chunks'
          /\ chunks' \subseteq chunks
          /\ \A f \in disk :
               (\A h \in listed : f.path # chunk_path(b, h)) => f \in disk'
          /\ disk' \subseteq disk
          /\ TimeIn(deletes', b) = now]_vars

\* a bulk delete answered 404 that removed a listed row and left another
C8_Witness ==
  \E p \in Procs :
    /\ pc[p] = "done" /\ req[p].op = "DELETE_CHUNKS" /\ resp[p].code = 404
    /\ Len(req[p].list) >= 2
    /\ local[p].count >= 1
    /\ \E row \in chunks : row.bucket = req[p].bucket /\ row.ext
    /\ StatusTime(req[p].bucket) = now

(***************************************************************************)
(* Claims on the client and its cache (ClientSpec).                        *)
(***************************************************************************)
\* the chunks of the file, of the directory and of the top-level list
FileHash(i) == Blake2b(FileChunk(i))
DirPlain == Serialize(Entries(Join(<<FileHash(1), FileHash(2)>>)))
RootPlain == Serialize(RootEntries(Blake2b(DirPlain), DirPlain.len))

\* has_chunk has answered for cl.chunk
Answered == cl.pc \in {"backup_file_good", "push_chunk_put"}

\* has_chunk did not trust the cache: it sent a HEAD, or it was given a
\* size below 16 KiB and said No
Reprobed ==
  /\ cl.hc # "YesCached"
  /\ \/ cl.probed
     \/ cl.hc = "No" /\ cl.size # -1 /\ cl.size < REUPLOAD_SIZE

(* C2 as claimed: in a run whose GET /status was processed after a chunk    *)
(* delete D, has_chunk never answers YesCached from a remote row written    *)
(* before D; it probes such a chunk with HEAD, or says No for a size below  *)
(* 16 KiB.                                                                  *)
C2_StaleRowNeverTrusted ==
  (Answered /\ cl.chunk \in hist.stale) => Reprobed

(* C2 as amended: the same, provided the client's clock is not ahead of     *)
(* the server's.                                                            *)
C2_StaleRowNeverTrustedInStep ==
  (skew <= 0 /\ Answered /\ cl.chunk \in hist.stale) => Reprobed

\* a stale row of the directory chunk was passed over and the chunk said No
C2_Witness ==
  /\ skew <= 0 /\ Answered /\ cl.chunk \in hist.stale
  /\ \E r \in remote : r.chunk = cl.chunk /\ r.time = state.last_delete
  /\ cl.hc = "No" /\ ~cl.probed

\* the hashes a root row reaches through the serializations pushed
Refs(S) == S \cup {e.to : e \in {x \in hist.refs : x.from \in S}}
Referenced(h) == Refs(Refs(Refs({h})))
Intact == \A x \in roots : \A h \in Referenced(x.hash) : RowsIn(chunks, x.bucket, h) # {}

(* C3 as claimed: in every reachable state every chunk hash referenced by a *)
(* row of roots, and every hash referenced from a directory chunk reachable *)
(* from it, has a row in chunks with the same bucket.                       *)
C3_RootsReferenceStoredChunks == Intact

(* C3 as amended: as long as no chunk DELETE was processed for the bucket,  *)
(* every hash referenced by a root that a run of the client registered has  *)
(* a row in chunks with the same bucket.                                    *)
C3_IntactWithoutDelete == (deletes = {}) => Intact

\* a run registered its root, which reaches the two chunks of the file
C3_Witness ==
  /\ deletes = {} /\ roots # {}
  /\ \E x \in roots : {FileHash(1), FileHash(2)} \subseteq Referenced(x.hash)

\* a run follows a run that returned Ok, and no delete was processed since
\* that one started
SecondRun ==
  /\ hist.runs >= 2 /\ hist.prevok
  /\ ~hist.delprev /\ ~hist.gap /\ ~hist.delrun

(* C5 as claimed: a second run over the same tree, after a first run that   *)
(* completed and with no delete processed since the first run started,      *)
(* issues zero PUT /chunks requests.                                        *)
C5_SecondRunPutsNothing == SecondRun => hist.puts = {}

(* C5 as amended: it issues zero PUT /chunks requests provided every remote *)
(* row the first run left is newer than the delete epoch the second run     *)
(* reads (remote.time > last_delete).                                       *)
C5_SecondRunPutsNothingIfNewer ==
  (/\ SecondRun
   /\ cl.pc # "run_last_delete"
   /\ \A r \in remote : r.time > state.last_delete)
    => hist.puts = {}

\* such a second run has come to its end, after a delete that preceded the
\* first run, and its chunks were answered from the cache
C5_Witness ==
  /\ SecondRun /\ cl.pc = "idle" /\ hist.ok
  /\ state.last_delete > 0
  /\ \A r \in remote : r.time > state.last_delete
  /\ {FileHash(1), Blake2b(DirPlain), Blake2b(RootPlain)} \subseteq hist.cached

\* a run has ended that followed a completed run and that found the first
\* chunk of the file deleted since and no other, with no delete during
\* either run
OnlyFirstLost ==
  /\ cl.pc = "idle" /\ hist.runs >= 2 /\ hist.ok /\ hist.prevok
  /\ hist.lost = {FileHash(1)} /\ ~hist.delprev /\ ~hist.delrun

(* C7 as claimed: the next run observes the advanced delete epoch, ignores  *)
(* its remote rows, receives 404 on HEAD for h1, and issues a PUT /chunks   *)
(* for h1 and for no other chunk.                                           *)
C7_OnlyFirstChunkPut ==
  OnlyFirstLost =>
    /\ state.last_delete > hist.epoch
    /\ hist.cached = {}
    /\ [chunk |-> FileHash(1), code |-> 404] \in hist.heads
    /\ hist.puts = {FileHash(1)}

\* the chunks below 16 KiB that a run pushes
SmallChunks ==
  {Blake2b(c) : c \in {x \in {FileChunk(1), FileChunk(2), DirPlain, RootPlain} :
                         x.len < REUPLOAD_SIZE}}

(* C7 as amended: with the client's clock not ahead of the server's, the    *)
(* next run reads a delete epoch no older than its remote rows, ignores     *)
(* them, receives 404 on HEAD for h1 and issues a PUT /chunks for h1, and   *)
(* besides for every chunk below 16 KiB that it pushes (the directory and   *)
(* the top-level list, and h2 if it is that short) and for no other; h2 of  *)
(* 16 KiB or more is answered 200 on HEAD.                                  *)
C7_FirstAndSmallChunksPut ==
  (OnlyFirstLost /\ skew <= 0) =>
    /\ state.last_delete >= hist.epoch
    /\ hist.cached = {}
    /\ [chunk |-> FileHash(1), code |-> 404] \in hist.heads
    /\ hist.puts = {FileHash(1)} \cup SmallChunks
    /\ FileChunk(2).len >= REUPLOAD_SIZE =>
         [chunk |-> FileHash(2), code |-> 200] \in hist.heads

\* such a run has ended, and the directory chunk was among its PUTs
C7_Witness ==
  /\ OnlyFirstLost /\ skew <= 0
  /\ Blake2b(DirPlain) \in hist.puts
  /\ FileHash(2) \notin hist.puts

(***************************************************************************)
(* The size the server records for what push_chunk uploads.                *)
(***************************************************************************)
\* the plaintexts a run of the client pushes
Plaintexts == {FileChunk(1), FileChunk(2), DirPlain, RootPlain}

\* every row of a pushed plaintext records `size(P)`, and the committed file
\* of an external one holds as many bytes as the row says
SizeRecorded(size(_)) ==
  \A P \in Plaintexts : \A row \in ChunkRows(B1, Blake2b(P)) :
    /\ row.size = size(P)
    /\ row.ext => \A f \in FileAt(chunk_path(B1, row.hash)) : f.data.len = size(P)

PlainLen(P) == P.len
StoredLen(P) == P.len + 12

(* C11 as claimed: for every chunk push_chunk uploads from a plaintext of   *)
(* length n and the server installs, the size in the chunks row equals n,   *)
(* and an external chunk's committed file holds that same number of bytes.  *)
C11_SizeIsPlaintextLength == SizeRecorded(PlainLen)

(* C11 as amended: the size in the chunks row equals n + 12, the length of  *)
(* the uploaded object (nonce and ciphertext), and an external chunk's      *)
(* committed file holds that same number of bytes.                          *)
C11_SizeIsStoredLength == SizeRecorded(StoredLen)

\* the first chunk of the file is installed as an external chunk with its
\* file, and the directory chunk as an inline one
C11_Witness ==
  /\ \E row \in ChunkRows(B1, FileHash(1)) :
       row.ext /\ FileAt(chunk_path(B1, row.hash)) # {}
  /\ \E row \in ChunkRows(B1, Blake2b(DirPlain)) : ~row.ext

(***************************************************************************)
(* BucketSpec: every operation of the server addressed to either of two    *)
(* buckets, sent one at a time by a user with Delete access, with an       *)
(* inline and an external chunk body for each bucket and the clock         *)
(* advancing.                                                              *)
(***************************************************************************)
Buckets == {B1, B2}

\* what is uploaded to one bucket differs from what is uploaded to the other
Small2 == Bytes(2, <<"s">>, 14)
BucketBodies(b) == IF b = B1 THEN {Small1, Large1} ELSE {Small2, Large2}

BucketShapes ==
  {[Request(op, Dora, b, H1,
            IF op # "PUT_CHUNK" THEN NoBytes
            ELSE CHOOSE x \in BucketBodies(b) : (x.len < SMALL_SIZE) = v,
            IF op = "DELETE_CHUNKS" THEN <<H1>> ELSE <<>>)
      EXCEPT !.host = IF op = "PUT_ROOT" THEN Hostname ELSE <<>>,
             !.text = IF op = "PUT_ROOT" THEN H1 ELSE EmptyStr,
             !.id = IF op = "DELETE_ROOT" THEN i ELSE 0,
             !.validate = (op = "LIST_CHUNKS" /\ i = 1)]
     : op \in Operations, b \in Buckets, v \in BOOLEAN, i \in 1..MaxRoots}

BucketNext ==
  \/ \E p \in Procs : \E r \in BucketShapes :
       \/ Quiet /\ handle_get_status(p, r) /\ UNCHANGED clientVars
       \/ Quiet /\ handle_get_chunk(p, r, FALSE) /\ UNCHANGED clientVars
       \/ Quiet /\ handle_get_chunk(p, r, TRUE) /\ UNCHANGED clientVars
       \/ Quiet /\ handle_put_chunk(p, r) /\ UNCHANGED clientVars
       \/ Quiet /\ handle_delete_chunk(p, r) /\ UNCHANGED clientVars
       \/ Quiet /\ handle_delete_chunks(p, r) /\ UNCHANGED clientVars
       \/ Quiet /\ handle_list_chunks(p, r) /\ UNCHANGED clientVars
       \/ Quiet /\ handle_get_roots(p, r) /\ UNCHANGED clientVars
       \/ Quiet /\ handle_put_root(p, r) /\ UNCHANGED clientVars
       \/ Quiet /\ handle_delete_root(p, r) /\ UNCHANGED clientVars
  \/ \E p \in Procs :
       \/ put_chunk_body(p) /\ UNCHANGED clientVars
       \/ put_chunk_insert(p) /\ UNCHANGED clientVars
       \/ put_chunk_rename(p) /\ UNCHANGED clientVars
       \/ get_chunk_read(p) /\ UNCHANGED clientVars
       \/ delete_chunks_body(p) /\ UNCHANGED clientVars
       \/ Return(p) /\ UNCHANGED clientVars
  \/ Tick /\ UNCHANGED clientVars

BucketSpec == Init /\ [][BucketNext]_vars

(***************************************************************************)
(* Claims on the separation of buckets (BucketSpec).                       *)
(***************************************************************************)
\* what the server holds of bucket b: its chunks rows, its committed
\* external files, its roots rows and its delete epoch
Holding(ch, dk, rt, dl, b) ==
  [chunks |-> {row \in ch : row.bucket = b},
   disk |-> {f \in dk : f.path.bucket = b},
   roots |-> {x \in rt : x.bucket = b},
   epoch |-> TimeIn(dl, b)]

\* the response carries nothing but what the server holds of bucket b
OnlyDataOf(b, r, rsp) ==
  LET mine == Holding(chunks, disk, roots, deletes, b) IN
  /\ rsp.rows \subseteq mine.roots \cup {ListLine(row, r.validate) : row \in mine.chunks}
  /\ rsp.data # NoBytes =>
       rsp.data \in {row.content : row \in mine.chunks} \cup {f.data : f \in mine.disk}
  /\ rsp.size # 0 => rsp.size \in {row.size : row \in mine.chunks}
  /\ rsp.value # 0 => rsp.value = mine.epoch

\* the bucket that the request handler p is working on addresses
Addressed(p) == IF pc[p] = "idle" THEN req'[p].bucket ELSE req[p].bucket

(* C12: every step of a request addressed to bucket b leaves the chunks     *)
(* rows, committed external files, roots rows and delete epoch of every     *)
(* other bucket unchanged, and its response carries only data of b; a       *)
(* DELETE /roots/{b}/{id} for an id that belongs to another bucket removes  *)
(* nothing and is answered 404.                                             *)
C12_OtherBucketsUntouched ==
  [][\A p \in Procs : pc'[p] # pc[p] =>
       /\ \A b \in Buckets \ {Addressed(p)} :
            Holding(chunks', disk', roots', deletes', b)
              = Holding(chunks, disk, roots, deletes, b)
       /\ pc'[p] = "done" => OnlyDataOf(Addressed(p), req'[p], resp'[p])
       /\ (/\ pc'[p] = "done" /\ req'[p].op = "DELETE_ROOT"
           /\ \E x \in roots : x.id = req'[p].id /\ x.bucket # req'[p].bucket)
            => roots' = roots /\ resp'[p].code = 404]_vars

\* a DELETE /roots for the id of the other bucket's root was answered 404
\* while both buckets hold a chunk, one of them external
C12_Witness ==
  \E p \in Procs :
    /\ pc[p] = "done" /\ req[p].op = "DELETE_ROOT" /\ resp[p].code = 404
    /\ \E x \in roots : x.id = req[p].id /\ x.bucket # req[p].bucket
    /\ \A b \in Buckets : ChunkRows(b, H1) # {}
    /\ \E f \in disk : f.path.bucket # req[p].bucket

(***************************************************************************)
(* Claims on the fast path of backup_file (ClientSpec).                    *)
(***************************************************************************)
\* the chunk list of the files row that matches the file
CachedChunks == (CHOOSE f \in files : f.path = FilePath).chunks

\* backup_file is in its loop over the cached chunk list
InFastPath ==
  \/ cl.pc \in {"backup_file_fast", "backup_file_good"}
  \/ cl.pc = "has_chunk_head" /\ cl.ret = "backup_file_good"

\* has_chunk has answered Yes or YesCached for the hash in this run
AnsweredYes(h) ==
  h \in hist.cached \/ [chunk |-> h, code |-> 200] \in hist.heads

(* C13: with recheck disabled and a files row matching the file, the loop   *)
(* over the cached list sends no PUT and does not open the file; if         *)
(* has_chunk answers Yes or YesCached for every hash, the cached list is    *)
(* returned; at the first No the loop is left, the remaining hashes are not *)
(* probed, and the file is handled as without a row: counted in             *)
(* transfer_bytes in the scan pass, re-read and re-pushed in the transfer   *)
(* pass.                                                                    *)
C13_FastPath ==
  [][/\ InFastPath =>
          /\ hist'.puts = hist.puts
          /\ InFastPath' \/ cl'.pc \in {"backup_folder", "backup_file_scan"}
     /\ (cl.pc = "backup_file_fast" /\ cl'.pc = "backup_folder") =>
          /\ cl'.file = CachedChunks
          /\ state' = state
          /\ \A h \in {FileHash(1), FileHash(2)} : AnsweredYes(h)
     /\ (cl.pc = "backup_file_good" /\ cl.hc \in {"Yes", "YesCached"}) =>
          cl'.pc = "backup_file_fast" /\ cl'.i = cl.i + 1
     /\ (cl.pc = "backup_file_good" /\ cl.hc = "No") =>
          cl'.pc = "backup_file_scan" /\ cl'.list = <<>>
     /\ (cl.pc = "backup_file_scan" /\ state.scan) =>
          /\ state'.transfer_bytes = state.transfer_bytes + tree.size
          /\ cl'.pc = "backup_folder"
     /\ (cl.pc = "backup_file_scan" /\ ~state.scan) =>
          cl'.pc = "backup_file_read" /\ cl'.i = 1]_vars

\* in the transfer pass the first cached hash was answered No after the scan
\* pass had returned the cached list: the second hash was not probed again
C13_Witness ==
  /\ hist.runs >= 2 /\ ~state.scan
  /\ cl.pc = "backup_file_scan" /\ cl.hc = "No" /\ cl.chunk = FileHash(1)
  /\ state.transfer_bytes < tree.size
  /\ [chunk |-> FileHash(1), code |-> 404] \in hist.heads

(***************************************************************************)
(* Claims on push_chunk (ClientSpec).                                      *)
(***************************************************************************)
\* push_chunk takes up, in this step, a chunk without a valid remote row
Uncached ==
  cl.pc = "push_chunk" /\ cl'.pc # "push_chunk" /\ HasRemote(Blake2b(cl.content)) # 1

\* push_chunk sends its PUT in this step
PutSent == cl.pc = "push_chunk_put" /\ cl'.pc = "push_chunk_done"

(* C14: when push_chunk handles a chunk without a valid remote row, a       *)
(* plaintext shorter than 16 KiB is PUT without a HEAD before it; for one   *)
(* of 16 KiB or more a HEAD is sent first, and the PUT is sent only when    *)
(* the HEAD was answered 404.                                               *)
C14_HeadBeforePutBySize ==
  [][/\ (Uncached /\ cl.content.len < 16384) =>
          cl'.pc = "push_chunk_put" /\ ~cl'.probed /\ req' = req
     /\ (Uncached /\ cl.content.len >= 16384) =>
          /\ cl'.pc = "has_chunk_head" /\ req'[Conn].op = "HEAD_CHUNK"
          /\ req'[Conn].chunk = Blake2b(cl.content)
     /\ (cl.pc = "has_chunk_head" /\ cl.ret = "push_chunk_put"
           /\ cl'.pc = "push_chunk_put" /\ resp[Conn].code # 404) =>
          cl'.hc # "No"
     /\ PutSent =>
          /\ cl.hc = "No"
          /\ req'[Conn].op = "PUT_CHUNK" /\ req'[Conn].chunk = Blake2b(cl.content)
          /\ cl.probed <=> cl.content.len >= 16384]_vars

\* the directory's small chunk has been PUT without a HEAD, in a run that
\* PUT the file's chunk of exactly 16 KiB after its HEAD was answered 404
C14_Witness ==
  /\ cl.pc = "push_chunk_done" /\ cl.content = DirPlain /\ ~cl.probed
  /\ cl.content.len < 16384
  /\ \A x \in hist.heads : x.chunk # Blake2b(DirPlain)
  /\ FileChunk(2).len = 16384 /\ FileHash(2) \in hist.puts
  /\ hist.heads = {[chunk |-> FileHash(1), code |-> 404],
                   [chunk |-> FileHash(2), code |-> 404]}

(***************************************************************************)
(* PushSpec: runs of the client while a second client of the same user,    *)
(* with the same seed and key, uploads chunks of the same tree.            *)
(***************************************************************************)
\* the other client's uploads: the file's first chunk and the directory,
\* under a nonce of its own
RacePuts ==
  {PutReq(Blake2b(P), Encrypt(P, MaxNonce + 1)) : P \in {FileChunk(1), DirPlain}}

\* retry gives up: the request was sent, and served, but no response came
\* through, and has_chunk or push_chunk returns the error
retry_fails(p) ==
  /\ cl.pc \in {"has_chunk_head", "push_chunk_done"}
  /\ pc[p] = "done"
  /\ Return(p)
  /\ cl' = Client("idle")
  /\ hist' = [hist EXCEPT !.ok = FALSE, !.neterr = TRUE]
  /\ UNCHANGED <<tree, skew, remote, files, state>>

PushNext ==
  \/ run(Conn)
  \/ run_last_delete(Conn)
  \/ backup_file
  \/ backup_file_fast(Conn)
  \/ backup_file_good
  \/ backup_file_scan
  \/ backup_file_read
  \/ backup_file_next
  \/ backup_file_done
  \/ has_chunk_head(Conn)
  \/ push_chunk(Conn)
  \/ push_chunk_put(Conn)
  \/ push_chunk_done(Conn)
  \/ retry_fails(Conn)
  \/ backup_folder
  \/ run_root
  \/ run_put_root(Conn)
  \/ run_done(Conn)
  \/ \E p \in Procs :
       \/ put_chunk_body(p) /\ UNCHANGED clientVars
       \/ put_chunk_insert(p) /\ UNCHANGED clientVars
       \/ put_chunk_rename(p) /\ UNCHANGED clientVars
  \/ \E p \in Procs \ {Conn} :
       \/ \E r \in RacePuts :
            cl.pc \notin Local /\ handle_put_chunk(p, r) /\ UNCHANGED clientVars
       \/ Return(p) /\ UNCHANGED clientVars
  \/ cl.pc = "idle" /\ Tick /\ UNCHANGED clientVars

PushSpec == ClientStart /\ [][PushNext]_vars

\* push_chunk takes the answer to its PUT in this step
PutAnswered ==
  cl.pc = "push_chunk_done" /\ cl'.pc # "push_chunk_done" /\ ~hist'.neterr

\* has_chunk said the chunk is there, and push_chunk goes on in this step
NoPutNeeded ==
  cl.pc = "push_chunk_put" /\ cl.hc # "No" /\ cl'.pc # "push_chunk_put"

\* the remote row of hash carries the client's current time
RemoteNow(hash) ==
  {r \in remote' : r.chunk = hash} = {[chunk |-> hash, time |-> ClientTime]}

(* C15: in push_chunk a PUT answered 200 or 409 is a success, and the       *)
(* remote row of the hash is then written with the current time; a PUT      *)
(* answered otherwise makes push_chunk fail and no remote row is written;   *)
(* the remote row is written on every success unless has_chunk answered     *)
(* YesCached.                                                               *)
C15_PutOutcome ==
  [][/\ (PutAnswered /\ resp[Conn].code \in {200, 409}) =>
          cl'.pc = cl.after /\ RemoteNow(cl.chunk)
     /\ (PutAnswered /\ resp[Conn].code \notin {200, 409}) =>
          cl'.pc = "idle" /\ ~hist'.ok /\ remote' = remote
     /\ (NoPutNeeded /\ cl.hc = "Yes") =>
          cl'.pc = cl.after /\ RemoteNow(cl.chunk)
     /\ (NoPutNeeded /\ cl.hc = "YesCached") =>
          cl'.pc = cl.after /\ remote' = remote]_vars

\* the directory's chunk was PUT after the other client had installed it:
\* the answer was 409, the remote row is written and the run goes on
C15_Witness ==
  /\ cl.pc = "run_root" /\ cl.chunk = Blake2b(DirPlain)
  /\ cl.chunk \in hist.puts
  /\ \E row \in ChunkRows(B1, cl.chunk) : row.content.nonce = MaxNonce + 1
  /\ \E r \in remote : r.chunk = cl.chunk

\* the caller of has_chunk goes on, in this step, after a HEAD answered 200
HeadSaidYes(callers) ==
  cl.pc \in callers /\ cl.hc = "Yes" /\ cl.probed /\ cl'.pc # cl.pc

(* C16: after a has_chunk that sent a HEAD and answered Yes, the caller,    *)
(* push_chunk or the fast path of backup_file, writes the remote row of     *)
(* that chunk with the current time.                                        *)
C16_RemoteRowAfterHeadYes ==
  [][HeadSaidYes({"push_chunk_put", "backup_file_good"}) =>
       RemoteNow(cl.chunk)]_vars

\* the client is waiting for the answer to a HEAD or to a chunk's PUT
Waiting == cl.pc \in {"has_chunk_head", "push_chunk_done"}

\* the answer the client takes in this step is a failure of the probe or
\* of the upload
BadAnswer ==
  \/ cl.pc = "has_chunk_head" /\ resp[Conn].code \notin {200, 404}
  \/ cl.pc = "push_chunk_done" /\ resp[Conn].code \notin {200, 409}

\* the server has answered 200 to the HEAD or 200/409 to the PUT of cl.chunk
ServerConfirmed ==
  \/ cl.pc = "push_chunk_done" /\ resp[Conn].code \in {200, 409}
       /\ req[Conn].op = "PUT_CHUNK" /\ req[Conn].chunk = cl.chunk
  \/ cl.pc = "push_chunk_put" /\ cl.hc = "Yes"
       /\ [chunk |-> cl.chunk, code |-> 200] \in hist.heads

(* C17: a chunk probe or upload that fails ends the run at once: no PUT     *)
(* /roots is sent and no files row is written; and the cache stays valid:   *)
(* every hash of a files row has a remote row, and a remote row is written  *)
(* only after the server answered 200 to the HEAD or 200/409 to the PUT of  *)
(* its chunk.                                                               *)
C17_AbortLeavesValidCache ==
  [][/\ (Waiting /\ cl'.pc # cl.pc /\ (BadAnswer \/ hist'.neterr)) =>
          cl'.pc = "idle"
     /\ (Waiting /\ cl'.pc = "idle") =>
          /\ files' = files /\ remote' = remote /\ roots' = roots
          /\ pc'[Conn] = "idle" /\ ~hist'.ok
     /\ \A f \in files' : \A h \in Elems(Split(f.chunks)) :
          \E r \in remote' : r.chunk = h
     /\ \A r \in remote' \ remote : r.chunk = cl.chunk /\ ServerConfirmed]_vars

\* the first run ended when the directory's PUT failed: the file's row and
\* the remote rows of its two chunks are there, and no root is registered
C17_Witness ==
  /\ cl.pc = "idle" /\ hist.runs = 1 /\ ~hist.ok
  /\ Blake2b(DirPlain) \in hist.puts
  /\ {f.chunks : f \in files} = {Join(<<FileHash(1), FileHash(2)>>)}
  /\ {r.chunk : r \in remote} = {FileHash(1), FileHash(2)}
  /\ roots = {}

(***************************************************************************)
(* HashSpec: every operation of the server, sent one at a time by a user   *)
(* with Delete access, with well-formed and with malformed identifiers in  *)
(* the path and in the body.                                               *)
(***************************************************************************)
Names(good) == {good, BadShort, BadUpper, BadChar}

\* the pieces of a bulk delete's body: a hash, a hash and a malformed one,
\* and the one empty piece of an empty body
HashLists == {<<H1>>, <<H1, BadChar>>, <<EmptyStr>>}

ChunkOps == {"GET_CHUNK", "HEAD_CHUNK", "PUT_CHUNK", "DELETE_CHUNK"}

HashShapes ==
  {r \in {[Request(op, Dora, b, c,
                   IF op = "PUT_CHUNK" THEN Small1 ELSE NoBytes, l)
             EXCEPT !.host = IF op = "PUT_ROOT" THEN Hostname ELSE <<>>,
                    !.text = t,
                    !.id = IF op = "DELETE_ROOT" THEN 1 ELSE 0]
            : op \in Operations, b \in Names(B1), c \in Names(H1),
              l \in HashLists \cup {<<>>}, t \in Names(H1) \cup {EmptyStr}} :
     /\ r.op \notin ChunkOps => r.chunk = H1
     /\ r.op = "DELETE_CHUNKS" <=> r.list # <<>>
     /\ r.op # "PUT_ROOT" => r.text = EmptyStr}

HashNext ==
  \/ \E p \in Procs : \E r \in HashShapes :
       \/ Quiet /\ handle_get_status(p, r) /\ UNCHANGED clientVars
       \/ Quiet /\ handle_get_chunk(p, r, FALSE) /\ UNCHANGED clientVars
       \/ Quiet /\ handle_get_chunk(p, r, TRUE) /\ UNCHANGED clientVars
       \/ Quiet /\ handle_put_chunk(p, r) /\ UNCHANGED clientVars
       \/ Quiet /\ handle_delete_chunk(p, r) /\ UNCHANGED clientVars
       \/ Quiet /\ handle_delete_chunks(p, r) /\ UNCHANGED clientVars
       \/ Quiet /\ handle_list_chunks(p, r) /\ UNCHANGED clientVars
       \/ Quiet /\ handle_get_roots(p, r) /\ UNCHANGED clientVars
       \/ Quiet /\ handle_put_root(p, r) /\ UNCHANGED clientVars
       \/ Quiet /\ handle_delete_root(p, r) /\ UNCHANGED clientVars
  \/ \E p \in Procs :
       \/ put_chunk_body(p) /\ UNCHANGED clientVars
       \/ delete_chunks_body(p) /\ UNCHANGED clientVars
       \/ Return(p) /\ UNCHANGED clientVars
  \/ Tick /\ UNCHANGED clientVars

HashSpec == Init /\ [][HashNext]_vars

\* exactly 64 characters of [0-9a-f], as the claim puts it
C18_WellFormed(name) ==
  /\ name.len = 64
  /\ \A i \in 1..64 :
       CharAt(name, i) \in {"0", "1", "2", "3", "4", "5", "6", "7", "8", "9",
                            "a", "b", "c", "d", "e", "f"}

\* an identifier of request r that its handler is to validate is malformed
Malformed(r) ==
  \/ ~C18_WellFormed(r.bucket)
  \/ (r.op \in ChunkOps /\ ~C18_WellFormed(r.chunk))
  \/ (r.op = "DELETE_CHUNKS" /\ \E h \in Elems(r.list) : ~C18_WellFormed(h))
  \/ (r.op = "PUT_ROOT" /\ ~C18_WellFormed(r.text))

(* C18: an authorized request with a bucket, a chunk identifier, a hash of  *)
(* a bulk-delete body or a root-PUT body that is not exactly 64 characters  *)
(* of [0-9a-f] is answered 400; no step of its handler touches the tables   *)
(* or the files, and a malformed bucket or chunk identifier is answered     *)
(* before the handler's first await.                                        *)
C18_MalformedIs400 ==
  [][\A p \in Procs :
       (pc'[p] # pc[p] /\ pc'[p] # "idle" /\ Malformed(req'[p])) =>
         /\ UNCHANGED <<chunks, deletes, roots, disk, upload>>
         /\ pc'[p] = "done" => resp'[p].code = 400
         /\ (~C18_WellFormed(req'[p].bucket)
               \/ (req'[p].op \in ChunkOps /\ ~C18_WellFormed(req'[p].chunk))) =>
              pc[p] = "idle" /\ pc'[p] = "done"]_vars

\* a bulk delete that names a stored chunk and a malformed hash has been
\* answered 400, and the chunk and a root are still there
C18_Witness ==
  \E p \in Procs :
    /\ pc[p] = "done" /\ resp[p].code = 400
    /\ req[p].op = "DELETE_CHUNKS" /\ req[p].list = <<H1, BadChar>>
    /\ ChunkRows(B1, H1) # {} /\ roots # {}

(***************************************************************************)
(* EntsSpec: push_ents applied to every list of at most MaxEnts entries    *)
(* of a pool, up to the chunk it hands to push_chunk.  cl holds the        *)
(* argument, the list being worked on and ans.                             *)
(***************************************************************************)
MaxEnts == 3

\* entries that differ in the name, in the type alone, in the content alone
\* and in the size alone, one name being a prefix of another
EntPool ==
  {DirEnt(<<"f">>, "File", <<H1>>, 100, 1),
   DirEnt(<<"f">>, "Dir", <<H1>>, 100, 1),
   DirEnt(<<"f">>, "File", <<H2>>, 100, 1),
   DirEnt(<<"f">>, "File", <<H1>>, 7, 2),
   DirEnt(<<"a">>, "Link", <<Str(<<"b">>, "0", 1)>>, 0, 1),
   DirEnt(<<"a", "b">>, "File", Join(<<H1, H2>>), CHUNK_SIZE + 100, 1)}
EntLists == UNION {[1..n -> EntPool] : n \in 0..MaxEnts}

EntsInit ==
  /\ ServerInit
  /\ tree = CHOOSE t \in Trees : t.id = 1
  /\ skew = 0 /\ remote = {} /\ files = {}
  /\ state = NoState /\ hist = NoHist
  /\ \E list \in EntLists :
       cl = [pc |-> "push_ents", arg |-> list, entries |-> list, ans |-> <<>>]

\* entries.sort()
push_ents_sort ==
  /\ cl.pc = "push_ents"
  /\ cl' = [cl EXCEPT !.entries = sort(cl.entries), !.pc = "push_ents_loop"]
  /\ UNCHANGED <<serverSide, tree, skew, remote, files, state, hist>>

\* the loop that builds ans
push_ents_loop ==
  /\ cl.pc = "push_ents_loop"
  /\ cl' = [cl EXCEPT !.ans = push_str(<<>>, cl.entries), !.pc = "push_ents_push"]
  /\ UNCHANGED <<serverSide, tree, skew, remote, files, state, hist>>

EntsNext == push_ents_sort \/ push_ents_loop

EntsSpec == EntsInit /\ [][EntsNext]_vars

\* the lists that are permutations of list
Reorderings(list) ==
  {[i \in 1..Len(list) |-> list[f[i]]] :
     f \in {g \in [1..Len(list) -> 1..Len(list)] :
              \A i, j \in 1..Len(list) : i # j => g[i] # g[j]}}

(* C19: push_ents builds the same byte string, and so pushes the same       *)
(* chunk, for every permutation of its list of entries.                     *)
C19_OrderOfEntriesIrrelevant ==
  cl.pc = "push_ents_push" =>
    \A list \in Reorderings(cl.arg) :
      /\ push_str(<<>>, sort(list)) = cl.ans
      /\ Blake2b(Serialize(list)) = Blake2b(Serialize(cl.arg))

\* ans has been built from three entries that were not given in sorted
\* order, two of them differing in the type alone
C19_Witness ==
  /\ cl.pc = "push_ents_push" /\ Len(cl.arg) = 3 /\ cl.arg # cl.entries
  /\ cl.arg[1].name = <<"f">> /\ cl.arg[2].name = <<"f">>
  /\ cl.arg[1].etype = "File" /\ cl.arg[2].etype = "Dir"
  /\ cl.arg[3].name = <<"a">>
  /\ cl.entries[1].name = <<"a">> /\ cl.entries[2].etype = "Dir"

\* the fields of an entry as the serialization writes them
C20_Field(ent, field) ==
  CASE field = "name" -> <<Word(ent.name)>>
    [] field = "etype" -> <<Word(ETypeChars(ent.etype))>>
    [] field = "content" -> ent.content
    [] field = "size" -> <<Word(Dec(ent.size))>>
    [] field = "mode" -> <<Word(Dec(ent.mode))>>
    [] field = "uid" -> <<Word(Dec(ent.uid))>>
    [] field = "gid" -> <<Word(Dec(ent.gid))>>
    [] field = "mtime" -> <<Word(Dec(ent.mtime))>>
    [] field = "atime" -> <<Word(Dec(ent.atime))>>
    [] field = "ctime" -> <<Word(Dec(ent.ctime))>>

\* texts joined by sep, with no separator before the first or after the last
RECURSIVE C20_Joined(_, _)
C20_Joined(texts, sep) ==
  IF texts = <<>> THEN <<>>
  ELSE IF Len(texts) = 1 THEN texts[1]
  ELSE texts[1] \o sep \o C20_Joined(Tail(texts), sep)

\* the fields of each entry in the given order joined by one NUL, the
\* records joined by two
C20_Layout(entries, order) ==
  C20_Joined([i \in 1..Len(entries) |->
                C20_Joined([k \in 1..Len(order) |-> C20_Field(entries[i], order[k])],
                           <<NulPiece>>)],
             <<NulPiece, NulPiece>>)

(* C20 as stated: push_ents writes the fields of each entry in the order    *)
(* name, etype, content, size, mode, uid, gid, mtime, atime, ctime, joined  *)
(* by one NUL, and joins the records by two NULs, with no separator at      *)
(* either end.                                                              *)
C20_ContentBeforeSize ==
  cl.pc = "push_ents_push" =>
    cl.ans = C20_Layout(cl.entries,
                        <<"name", "etype", "content", "size", "mode", "uid",
                          "gid", "mtime", "atime", "ctime">>)

(* C20 (amended): the order is name, etype, size, content, mode, uid, gid,  *)
(* mtime, atime, ctime; the separators are as stated.                       *)
C20_SizeBeforeContent ==
  cl.pc = "push_ents_push" =>
    cl.ans = C20_Layout(cl.entries,
                        <<"name", "etype", "size", "content", "mode", "uid",
                          "gid", "mtime", "atime", "ctime">>)

\* ans has been built from two entries, one with a list of two chunks
C20_Witness ==
  /\ cl.pc = "push_ents_push" /\ Len(cl.entries) = 2
  /\ cl.entries[1].content = Join(<<H1, H2>>)
  /\ cl.entries[2].size = 7
  /\ Len(cl.ans) = 2 * 19 + 2 + 2

(***************************************************************************)
(* ScanSpec: the scan pass over the directory for files of many sizes,     *)
(* with an empty cache, up to the first read of the transfer pass.         *)
(***************************************************************************)
MaxChunks == 2

\* sizes around every multiple of CHUNK_SIZE up to MaxChunks, and 0
ScanTrees ==
  {[id |-> 1, size |-> 0, mtime |-> 1]}
    \cup {[id |-> 1, size |-> k * CHUNK_SIZE + d, mtime |-> 1] :
            k \in 0..MaxChunks,
            d \in {1, 100, REUPLOAD_SIZE, CHUNK_SIZE \div 2,
                   CHUNK_SIZE - 1, CHUNK_SIZE}}

\* run() has read the status and enters backup_folder for the scan pass
ScanInit ==
  /\ ServerInit
  /\ tree \in ScanTrees
  /\ skew = 0 /\ remote = {} /\ files = {}
  /\ state = NoState /\ hist = NoHist
  /\ cl = Client("backup_file")

ScanNext ==
  \/ backup_file
  \/ backup_file_scan
  \/ backup_folder

ScanSpec == ScanInit /\ [][ScanNext]_vars

\* ceil(size / CHUNK_SIZE): the chunks the read loop of backup_file pushes
C21_Chunks(size) == (size + CHUNK_SIZE - 1) \div CHUNK_SIZE

(* C21: in the scan pass the placeholder of a file of size s > 0 that       *)
(* misses the fast path has exactly 65 * ceil(s / CHUNK_SIZE) - 1           *)
(* characters, and the placeholder hash backup_folder returns for a         *)
(* directory has the 64 characters of a chunk hash.                         *)
C21_PlaceholderLengths ==
  /\ (cl.pc = "backup_folder" /\ state.scan /\ tree.size > 0) =>
       TextLen(cl.file) = 65 * C21_Chunks(tree.size) - 1
  /\ (cl.pc = "backup_file" /\ ~state.scan) => cl.chunk.len = HashLen

(***************************************************************************)
(* PUT of a chunk that has a row.                                          *)
(***************************************************************************)
\* handler p takes up an authorized PUT of a chunk that has a row
PutOfStored(p) ==
  /\ pc[p] = "idle" /\ pc'[p] # "idle"
  /\ req'[p].op = "PUT_CHUNK"
  /\ check_auth(req'[p].auth, "Put")
  /\ ChunkRows(req'[p].bucket, req'[p].chunk) # {}

(* C22: an authorized PUT /chunks/{b}/{h} for a (bucket, hash) that has a   *)
(* row is answered 409 in the step that takes it up, whatever its body, and *)
(* that step changes neither the chunks table (the row's size, time and    *)
(* inline content), nor the committed files, nor the upload directory.     *)
C22_ConflictChangesNothing ==
  [][\A p \in Procs :
       PutOfStored(p) =>
         /\ pc'[p] = "done" /\ resp'[p].code = 409
         /\ UNCHANGED <<chunks, disk, upload>>]_vars

\* a PUT with an external body was answered 409 for a chunk whose row is
\* external and whose file is committed, while another PUT's temp file
\* lies in the upload directory
C22_Witness ==
  \E p \in Procs :
    /\ pc[p] = "done" /\ req[p].op = "PUT_CHUNK" /\ resp[p].code = 409
    /\ req[p].body.len >= SMALL_SIZE
    /\ \E row \in ChunkRows(req[p].bucket, req[p].chunk) : row.ext
    /\ FileAt(chunk_path(req[p].bucket, req[p].chunk)) # {}
    /\ upload # {}

(***************************************************************************)
(* The order of the transfer pass.                                         *)
(***************************************************************************)
\* in this run has_chunk answered Yes or YesCached for h, or h was PUT and
\* push_chunk wrote its remote row after the answer
Pushed(h) ==
  \/ h \in hist.cached
  \/ [chunk |-> h, code |-> 200] \in hist.heads
  \/ (h \in hist.puts /\ \E r \in remote : r.chunk = h)

\* push_ents of the directory, and of the top-level list, calls push_chunk
DirPushStarts == cl.pc = "backup_folder" /\ cl'.pc = "push_chunk"
TopPushStarts == cl.pc = "run_root" /\ cl'.pc = "push_chunk"
\* a PUT /roots arrives at the server
RootPutSent ==
  \E p \in Procs : pc[p] = "idle" /\ pc'[p] # "idle" /\ req'[p].op = "PUT_ROOT"
\* the client sends a request
ClientSends == pc[Conn] = "idle" /\ pc'[Conn] # "idle"

(* C23: in the transfer pass push_ents of the directory is entered only    *)
(* when the content of its file lists the hash of every chunk of the file  *)
(* and the push of each of them has completed; push_ents of the top-level  *)
(* list is entered only when the push of the directory's chunk has         *)
(* completed; PUT /roots is sent only from the end of run(), when the push *)
(* of the top-level chunk has completed, and carries that chunk's hash;    *)
(* after it the client sends nothing more in the run, and a run returns Ok *)
(* only on the 200 answer to its PUT /roots.                               *)
C23_ChildrenBeforeParent ==
  [][/\ DirPushStarts =>
          /\ cl.file = Join(<<FileHash(1), FileHash(2)>>)
          /\ Pushed(FileHash(1)) /\ Pushed(FileHash(2))
     /\ TopPushStarts =>
          /\ cl.content = Serialize(Entries(cl.file))
          /\ cl.chunk = Blake2b(cl.content)
          /\ Pushed(cl.chunk)
     /\ RootPutSent =>
          /\ cl.pc = "run_put_root" /\ cl'.pc = "run_done"
          /\ \E x \in hist.refs :
               /\ Pushed(x.to)
               /\ cl.content = Serialize(RootEntries(x.to, Serialize(Entries(cl.file)).len))
          /\ cl.chunk = Blake2b(cl.content)
          /\ Pushed(cl.chunk)
          /\ req'[Conn].text = cl.chunk
     /\ cl.pc = "run_done" => (~ClientSends /\ cl'.pc \in {"run_done", "idle"})
     /\ (hist'.ok /\ ~hist.ok) =>
          /\ cl.pc = "run_done"
          /\ req[Conn].op = "PUT_ROOT" /\ resp[Conn].code = 200
          /\ Cardinality(roots) <= hist.runs]_vars

\* a run has returned Ok after it PUT both chunks of the file, the
\* directory's chunk and the top-level chunk, and its root is registered
C23_Witness ==
  /\ cl.pc = "idle" /\ hist.ok /\ hist.runs = 1
  /\ {FileHash(1), FileHash(2), Blake2b(DirPlain), Blake2b(RootPlain)} \subseteq hist.puts
  /\ \E x \in roots : x.hash = Blake2b(RootPlain)

(***************************************************************************)
(* The scan pass.                                                          *)
(***************************************************************************)
\* run() is in its first loop over the backup roots
InScan == state.scan /\ cl.pc \notin {"idle", "run_last_delete"}
\* the fast path of backup_file answered for the file
FastAnswered == cl.list # <<>>

(* C24: a step taken during the scan pass sends no PUT, does not come to   *)
(* the read loop of backup_file or to push_chunk, and leaves the tables    *)
(* files and remote and state.last_delete as they are; transfer_bytes is   *)
(* what it changes: backup_file adds the file's size to it unless the fast *)
(* path answered, and the end of backup_folder adds the estimate of the    *)
(* directory's serialization.                                              *)
C24_ScanTouchesNothing ==
  [][InScan =>
       /\ ~(ClientSends /\ req'[Conn].op \in {"PUT_CHUNK", "PUT_ROOT"})
       /\ cl'.pc \notin {"backup_file_read", "backup_file_next", "backup_file_done",
                         "push_chunk", "push_chunk_put", "push_chunk_done"}
       /\ UNCHANGED <<remote, files, tree>>
       /\ state'.last_delete = state.last_delete
       /\ cl.pc # "backup_folder" =>
            /\ state'.scan
            /\ state'.transfer_bytes =
                 IF cl.pc = "backup_file_scan"
                   THEN state.transfer_bytes + tree.size
                   ELSE state.transfer_bytes
       /\ cl.pc = "backup_folder" =>
            state'.transfer_bytes =
              (IF FastAnswered THEN 0 ELSE tree.size) + bytes_ents(Entries(cl.file))]_vars

\* the scan pass of a second run has come to the end of the directory: the
\* fast path answered for the file after a HEAD, and nothing was added
C24_Witness ==
  /\ InScan /\ cl.pc = "backup_folder" /\ FastAnswered
  /\ hist.runs = 2 /\ hist.heads # {}
  /\ state.transfer_bytes = 0
  /\ files # {} /\ remote # {}

(***************************************************************************)
(* UnlinkSpec: DeleteSpec on a file system whose remove_file may fail with *)
(* an error other than NotFound (EACCES, EROFS, EIO, ...).                 *)
(***************************************************************************)
\* (mutant) the DELETE and the REPLACE run although remove_file failed
do_delete_chunks_unlink_fails_Late(p, r, list) ==
  LET hit == RowsHit(r.bucket, list) IN
  /\ list # <<>>
  /\ \E bad \in {x \in hit : x.ext} :
       /\ chunks' = chunks \ hit
       /\ deletes' = ReplaceDelete(r.bucket, Cardinality(hit))
       /\ UNCHANGED <<disk, local, acked>>
  /\ Reply(p, r, Status(500))

\* do_delete_chunks when remove_file fails for the external row `bad`: the
\* files of the rows the SELECT gave before it (`before`) are unlinked, and
\* tryfut! returns 500 ahead of the DELETE and the REPLACE
do_delete_chunks_unlink_fails(p, r, list) ==
  LET hit == RowsHit(r.bucket, list)
      ext == {x \in hit : x.ext}
  IN
  /\ list # <<>>
  /\ \E bad \in ext : \E before \in SUBSET (ext \ {bad}) :
       disk' = {f \in disk :
                  f.path \notin {chunk_path(r.bucket, x.hash) : x \in before}}
  /\ UNCHANGED <<chunks, deletes, local, acked>>
  /\ Reply(p, r, Status(500))

\* DELETE /chunks/{bucket}/{chunk} whose remove_file fails
handle_delete_chunk_unlink_fails(p, r) ==
  /\ pc[p] = "idle"
  /\ r.op = "DELETE_CHUNK"
  /\ Arrive(p)
  /\ UNCHANGED <<roots, upload, now>>
  /\ check_auth(r.auth, "Delete")
  /\ check_hash(r.bucket) /\ check_hash(r.chunk)
  /\ do_delete_chunks_unlink_fails(p, r, <<r.chunk>>)

\* DELETE /chunks/{bucket}, past its body, whose remove_file fails
delete_chunks_body_unlink_fails(p) ==
  LET r == req[p] IN
  /\ pc[p] = "delete_body"
  /\ UNCHANGED <<roots, upload, now, conc>>
  /\ \A h \in Elems(r.list) : check_hash(h)
  /\ do_delete_chunks_unlink_fails(p, r, r.list)

UnlinkNext ==
  \/ DeleteNext
  \/ \E p \in Procs : \E r \in DeleteRequests :
       Quiet /\ handle_delete_chunk_unlink_fails(p, r) /\ UNCHANGED clientVars
  \/ \E p \in Procs :
       delete_chunks_body_unlink_fails(p) /\ UNCHANGED clientVars

UnlinkSpec == Init /\ [][UnlinkNext]_vars

\* handler p answers a chunk delete in this step
DeleteAnswers(p) ==
  /\ pc[p] # "done" /\ pc'[p] = "done"
  /\ req'[p].op \in {"DELETE_CHUNK", "DELETE_CHUNKS"}
\* the hashes the request of p names
Named(p) ==
  IF req'[p].op = "DELETE_CHUNK" THEN <<req'[p].chunk>> ELSE req'[p].list
\* an external row the delete of p matches has no file
FileMissing(p) ==
  \E x \in RowsHit(req'[p].bucket, Named(p)) :
    x.ext /\ FileAt(chunk_path(x.bucket, x.hash)) = {}

(* C25: a single or bulk chunk delete answered 500 has deleted no chunks   *)
(* row and has not advanced the delete epoch; the files it unlinked before *)
(* the error are gone, all of them files of external rows it names.  A     *)
(* delete that finds no file for an external row it names goes on: unless  *)
(* another unlink fails it removes every row it names, advances the epoch  *)
(* and is answered 200 or 404.                                             *)
C25_UnlinkError ==
  [][\A p \in Procs :
       DeleteAnswers(p) =>
         /\ resp'[p].code \in {200, 404, 500}
         /\ resp'[p].code = 500 =>
              /\ UNCHANGED <<chunks, deletes>>
              /\ disk' \subseteq disk
              /\ \A f \in disk \ disk' :
                   \E x \in RowsHit(req'[p].bucket, Named(p)) :
                     x.ext /\ f.path = chunk_path(x.bucket, x.hash)
         /\ (FileMissing(p) /\ resp'[p].code # 500) =>
              /\ chunks' = chunks \ RowsHit(req'[p].bucket, Named(p))
              /\ TimeIn(deletes', req'[p].bucket) = now]_vars

\* a bulk delete of two external chunks was answered 500 after it unlinked
\* the file of one of them: both rows are there, one file is not
C25_Witness ==
  \E p \in Procs :
    /\ pc[p] = "done" /\ req[p].op = "DELETE_CHUNKS" /\ resp[p].code = 500
    /\ req[p].list = <<H1, H2>>
    /\ \A h \in {H1, H2} : \E x \in ChunkRows(B1, h) : x.ext
    /\ FileAt(chunk_path(B1, H1)) = {} /\ FileAt(chunk_path(B1, H2)) # {}

(***************************************************************************)
(* The snapshot a run registers.                                           *)
(***************************************************************************)
(* C26: when a run's PUT /roots is processed, the client's clock being the *)
(* server's and no chunk delete having been processed since the run's GET  *)
(* /status was, every chunk the registered root refers to (the top-level   *)
(* chunk, the directory's chunk, the file's chunks) has a row in chunks    *)
(* for the bucket.                                                         *)
C26_SnapshotStored ==
  [][(RootPutSent /\ resp'[Conn].code = 200 /\ skew = 0 /\ ~hist.delrun) =>
       \A h \in Referenced(req'[Conn].text) : ChunkRows(B1, h) # {}]_vars

(***************************************************************************)
(* External rows and committed files.                                      *)
(***************************************************************************)
\* the paths of the rows with content IS NULL
ExternalPaths == {chunk_path(x.bucket, x.hash) : x \in {y \in chunks : y.ext}}

(* C27: whenever no request is in flight, the rows of chunks with NULL     *)
(* content and the committed external files are the same set: every such   *)
(* row has its file at chunk_path and every file there has its row.        *)
C27_ExternalRowsAreFiles ==
  InFlight = {} => ExternalPaths = {f.path : f \in disk}

(***************************************************************************)
(* PUTs answered with an error.                                            *)
(***************************************************************************)
\* handler p answers a chunk PUT with an error status in this step
PutRefused(p) ==
  /\ pc[p] # "done" /\ pc'[p] = "done"
  /\ req'[p].op = "PUT_CHUNK"
  /\ resp'[p].code \in {400, 409, 500}

(* C28: the step that answers a chunk PUT with 400, 409 or 500 leaves the  *)
(* chunks table as it is, and when the answer is 500 the chunk has no row  *)
(* (so that a HEAD would be answered 404 and a retried PUT not 409).       *)
C28_RefusedPutLeavesNoRow ==
  [][\A p \in Procs :
       PutRefused(p) =>
         /\ chunks' = chunks
         /\ resp'[p].code = 500 =>
              (/\ RowsIn(chunks', req'[p].bucket, req'[p].chunk) = {}
               /\ HeadCode(req'[p].bucket, req'[p].chunk) = 404)]_vars

(***************************************************************************)
(* The answer to a bulk delete.                                            *)
(***************************************************************************)
\* handler p runs do_delete_chunks for a bulk delete in this step
BulkDeleteRuns(p) ==
  /\ pc[p] = "delete_body" /\ pc'[p] = "done"
  /\ resp'[p].code \in {200, 404}
\* every hash the body lists has a row in the bucket
AllStored(p) == \A h \in Elems(req[p].list) : ChunkRows(req[p].bucket, h) # {}
\* the body lists no hash twice
NoRepeat(list) == Cardinality(Elems(list)) = Len(list)

(* C29 as stated: a bulk delete is answered 200 exactly when every hash    *)
(* its body lists had a row in the bucket when the delete ran, a body that *)
(* lists a hash twice included.                                            *)
C29_OkIffAllStored ==
  [][\A p \in Procs :
       BulkDeleteRuns(p) => (resp'[p].code = 200 <=> AllStored(p))]_vars

(* C29 (amended): a bulk delete is answered 200 exactly when every hash    *)
(* its body lists had a row in the bucket when the delete ran and the body *)
(* lists no hash more than once; a body that repeats a hash is answered    *)
(* 404.                                                                    *)
C29_OkIffAllStoredOnce ==
  [][\A p \in Procs :
       BulkDeleteRuns(p) =>
         (resp'[p].code = 200 <=> (AllStored(p) /\ NoRepeat(req[p].list)))]_vars

\* a bulk delete whose body lists H1 twice removed the row of H1 and was
\* answered 404
C29_Witness ==
  \E p \in Procs :
    /\ pc[p] = "done" /\ req[p].op = "DELETE_CHUNKS" /\ req[p].list = <<H1, H1>>
    /\ resp[p].code = 404
    /\ local[p].count = 1
    /\ ChunkRows(B1, H1) = {}

====
